---- MODULE Spec2Model ----
(***************************************************************************)
(* Comparison engine and feedback engine of the golf swing analyzer.       *)
(*                                                                         *)
(* The analysis pipeline (backend/app/pipeline/__init__.py, steps 6 to 7b) *)
(* takes the user's angles and the reference angles and applies, in this   *)
(* order: compute_deltas, compute_similarity_score, rank_differences,      *)
(* generate_feedback, rank_similarities.                                   *)
(*                                                                         *)
(* Angles are fixed-point integers in hundredths of a degree.  Every angle *)
(* the angle calculator and the reference builder emit is rounded to one   *)
(* decimal (scripts/calculate_angles.py:104..286,                          *)
(* scripts/build_reference_json.py:52..137), so the input values are       *)
(* multiples of 10.  Reliability weights are integers in tenths, weighted  *)
(* magnitudes therefore in thousandths of a degree.                        *)
(***************************************************************************)
EXTENDS Integers, Sequences, FiniteSets, TLC

VARIABLES user_angles, ref_angles, deltas, similarity_score, ranked,
          top_differences, ranked_sims, pc

\* One call of _rule_matches: its arguments and what it returned.
VARIABLES rm_rule, rm_delta, rm_result

\* Phase detection and angle calculation of one view: the landmark data,
\* the view, a stand-in for the detection script (<<>> for the real one),
\* the script's outcome, and what detect_swing_phases and calculate_angles
\* returned or raised.
VARIABLES ph_landmarks, ph_view, ph_mock, ph_script, ph_phases, ph_angles,
          ph_pc

\* Two pipeline threads inside detect_swing_phases or calculate_angles:
\* sys.stdout (0 for the stream it was at the start, t for the StringIO of
\* thread t), what each redirect_stdout saved, what each StringIO and the
\* original stream hold (the thread that printed each line), the lines each
\* script has yet to print, and what each call captured and returned.
VARIABLES so_stdout, so_old, so_buf, so_console, so_left, so_call,
          so_captured, so_result, so_pc

\* The steps of detect_phases on one video: the landmark data, the
\* smoothed signal, the rolling velocity (or the exception that ended the
\* step), and what find_top_of_backswing, find_address and find_impact
\* returned.
VARIABLES sg_landmarks, sg_y_smooth, sg_velocity, sg_top, sg_address,
          sg_impact, sg_pc

\* The share store: the rows of the shares table in the order of their
\* insertion, the clock in days, the cache keys analysis_store holds a
\* result for, the last call with what it returned, and the tokens for
\* which revoke_share has returned True.
VARIABLES sh_rows, sh_now, sh_results, sh_last, sh_revoked

pipelineVars == <<user_angles, ref_angles, deltas, similarity_score, ranked,
                  top_differences, ranked_sims, pc>>

ruleVars == <<rm_rule, rm_delta, rm_result>>

phaseVars == <<ph_landmarks, ph_view, ph_mock, ph_script, ph_phases,
               ph_angles, ph_pc>>

stdoutVars == <<so_stdout, so_old, so_buf, so_console, so_left, so_call,
                so_captured, so_result, so_pc>>

signalVars == <<sg_landmarks, sg_y_smooth, sg_velocity, sg_top, sg_address,
                sg_impact, sg_pc>>

shareVars == <<sh_rows, sh_now, sh_results, sh_last, sh_revoked>>

vars == <<pipelineVars, ruleVars, phaseVars, stdoutVars, signalVars,
          shareVars>>

\* Largest number of (view, phase, angle) cells in one analysis input.
MaxCells == 4

-----------------------------------------------------------------------------
(* Values and arithmetic                                                   *)

\* A numeric angle of t tenths of a degree, e.g. Num(187) is 18.7.
Num(t) == [kind |-> "num", val |-> 10 * t]

\* A non-numeric value such as the string "N/A".
NonNumeric == [kind |-> "str", val |-> 0]

\* The key is missing from the dict on this side.
Absent == [kind |-> "absent", val |-> 0]

\* isinstance(x, (int, float))
IsNumeric(x) == x.kind = "num"

Abs(x) == IF x < 0 THEN -x ELSE x

\* Python round(x, 1) on a value in hundredths: nearest tenth, a tie going
\* to the even tenth.
Round1(x) ==
  LET q == x \div 10
      r == x % 10
  IN  IF r < 5 THEN 10 * q
      ELSE IF r > 5 THEN 10 * (q + 1)
      ELSE IF q % 2 = 0 THEN 10 * q ELSE 10 * (q + 1)

\* Python round(num / den) for den > 0: nearest integer, a tie going to the
\* even integer.
PyRound(num, den) ==
  LET q == num \div den
      r == num % den
  IN  IF 2 * r < den THEN q
      ELSE IF 2 * r > den THEN q + 1
      ELSE IF q % 2 = 0 THEN q ELSE q + 1

-----------------------------------------------------------------------------
(* Constants of comparison_engine.py                                       *)

VIEWS == <<"dtl", "fo">>

PHASES == <<"address", "top", "impact", "follow_through">>

\* Order in which calculate_angles inserts the angles of a view into the
\* user's dict; compute_deltas iterates the user's dict in this order.
AngleOrder(view) ==
  IF view = "dtl"
  THEN <<"spine_angle_dtl", "lead_arm_torso", "trail_arm_torso",
         "right_elbow", "left_elbow", "right_knee_flex", "right_wrist_cock">>
  ELSE <<"shoulder_line_angle", "hip_line_angle", "x_factor",
         "spine_tilt_fo", "lead_arm_torso", "right_knee_flex",
         "left_knee_flex", "right_elbow", "left_elbow">>

WRAPAROUND_ANGLES == {"shoulder_line_angle", "hip_line_angle"}

\* The weights without the knee-flex entries of lines 35-42.
ANGLE_WEIGHTS_NoKnee(angle_name, phase) ==
  CASE angle_name = "spine_angle_dtl" /\ phase = "impact" -> 15
    [] angle_name = "spine_angle_dtl" /\ phase = "top" -> 13
    [] angle_name = "spine_tilt_fo" /\ phase = "impact" -> 13
    [] angle_name = "right_elbow" /\ phase = "top" -> 12
    [] angle_name = "left_elbow" /\ phase = "impact" -> 13
    [] OTHER -> 10

\* ANGLE_WEIGHTS.get((angle_name, phase), 1.0), in tenths.
ANGLE_WEIGHTS(angle_name, phase) ==
  CASE angle_name = "spine_angle_dtl" /\ phase = "impact" -> 15
    [] angle_name = "spine_angle_dtl" /\ phase = "top" -> 13
    [] angle_name = "spine_tilt_fo" /\ phase = "impact" -> 13
    [] angle_name = "right_elbow" /\ phase = "top" -> 12
    [] angle_name = "left_elbow" /\ phase = "impact" -> 13
    [] angle_name = "right_knee_flex" -> 7
    [] angle_name = "left_knee_flex" -> 7
    [] OTHER -> 10

\* MIN_DELTA_DEGREES = 5, in hundredths.
MIN_DELTA_DEGREES == 500

EXCLUDE_ANGLES_FROM_RANKING ==
  {"shoulder_line_angle", "hip_line_angle", "x_factor",
   "lead_arm_torso", "trail_arm_torso"}

-----------------------------------------------------------------------------
(* compute_deltas                                                          *)

\* A subtraction without the shortest-path correction.
NaiveDelta(user_val, ref_val) == user_val - ref_val

\* The correction with a remainder that takes the sign of the dividend, as
\* fmod and the % of C-like languages do.
TruncatedModDelta(user_val, ref_val) ==
  LET d == (user_val - ref_val) + 18000
      m == IF d >= 0 THEN d % 36000 ELSE -((-d) % 36000)
  IN  m - 18000

\* Lines 98-99: d = user_val - ref_val; d = (d + 180) % 360 - 180.
ShortestDelta(user_val, ref_val) ==
  (((user_val - ref_val) + 18000) % 36000) - 18000

\* Lines 93-102: the value stored for one angle that is numeric on both
\* sides.
CellDelta(angle_name, user_val, ref_val) ==
  IF angle_name \in WRAPAROUND_ANGLES
  THEN Round1(ShortestDelta(user_val, ref_val))
  ELSE Round1(user_val - ref_val)

\* The angles of a phase without the isinstance check.
DeltaAnglesUnchecked(user_phase_angles, ref_phase_angles) ==
  {a \in DOMAIN user_phase_angles : a \in DOMAIN ref_phase_angles}

\* Lines 90-95: the angles of a phase that get a delta.
DeltaAngles(user_phase_angles, ref_phase_angles) ==
  {a \in DOMAIN user_phase_angles :
     /\ a \in DOMAIN ref_phase_angles
     /\ IsNumeric(user_phase_angles[a])
     /\ IsNumeric(ref_phase_angles[a])}

compute_deltas(u, r) ==
  [view \in {v \in {VIEWS[i] : i \in DOMAIN VIEWS} :
               v \in DOMAIN u /\ v \in DOMAIN r} |->
     [phase \in {p \in {PHASES[i] : i \in DOMAIN PHASES} :
                   p \in DOMAIN u[view] /\ p \in DOMAIN r[view]} |->
        [a \in DeltaAngles(u[view][phase].angles, r[view][phase].angles) |->
           CellDelta(a, u[view][phase].angles[a].val,
                        r[view][phase].angles[a].val)]]]

\* The cells of a delta table in dict iteration order: views and phases in
\* the order compute_deltas inserted them, angles in the user's dict order.
RECURSIVE Flatten(_)
Flatten(ss) == IF ss = <<>> THEN <<>> ELSE Head(ss) \o Flatten(Tail(ss))

CellsInOrder(d) ==
  Flatten([i \in DOMAIN VIEWS |->
    IF VIEWS[i] \notin DOMAIN d THEN <<>> ELSE
    Flatten([j \in DOMAIN PHASES |->
      IF PHASES[j] \notin DOMAIN d[VIEWS[i]] THEN <<>> ELSE
      SelectSeq([k \in DOMAIN AngleOrder(VIEWS[i]) |->
                   <<VIEWS[i], PHASES[j], AngleOrder(VIEWS[i])[k]>>],
                LAMBDA c : c[3] \in DOMAIN d[c[1]][c[2]])])])

-----------------------------------------------------------------------------
(* rank_differences                                                        *)

\* Lines 130-149: the record appended to all_diffs for one cell.
DiffEntry(d, u, r, c) ==
  [angle_name |-> c[3], phase |-> c[2], view |-> c[1],
   user_value |-> u[c[1]][c[2]].angles[c[3]].val,
   reference_value |-> r[c[1]][c[2]].angles[c[3]].val,
   delta |-> d[c[1]][c[2]][c[3]],
   weighted_abs |-> Abs(d[c[1]][c[2]][c[3]]) * ANGLE_WEIGHTS(c[3], c[2])]

\* Lines 125-128 and 136: the cells that survive the filters.  The values
\* looked up at lines 133-134 are None only when the angle is missing.
DiffEligible(d, u, r, c) ==
  /\ ~(Abs(d[c[1]][c[2]][c[3]]) < MIN_DELTA_DEGREES)
  /\ c[3] \notin EXCLUDE_ANGLES_FROM_RANKING
  /\ c[3] \in DOMAIN u[c[1]][c[2]].angles
  /\ c[3] \in DOMAIN r[c[1]][c[2]].angles

AllDiffs(d, u, r) ==
  LET cells == SelectSeq(CellsInOrder(d),
                         LAMBDA c : DiffEligible(d, u, r, c))
  IN  [i \in DOMAIN cells |-> DiffEntry(d, u, r, cells[i])]

\* list.sort on a sequence of [key, item] records: descending by key,
\* records with equal keys keep their original order.
RECURSIVE InsertByKey(_, _)
InsertByKey(s, x) ==
  IF s = <<>> THEN <<x>>
  ELSE IF x.key > Head(s).key THEN <<x>> \o s
  ELSE <<Head(s)>> \o InsertByKey(Tail(s), x)

RECURSIVE StableSort(_)
StableSort(s) ==
  IF s = <<>> THEN <<>>
  ELSE InsertByKey(StableSort(SubSeq(s, 1, Len(s) - 1)), s[Len(s)])

Items(keyed) == [i \in DOMAIN keyed |-> keyed[i].item]

\* A sort by the raw magnitude.
SortDiffsUnweighted(all_diffs) ==
  Items(StableSort([i \in DOMAIN all_diffs |->
    [key |-> Abs(all_diffs[i].delta), item |-> all_diffs[i]]]))

\* Line 152: sort(key=weighted_abs, reverse=True).
SortDiffs(all_diffs) ==
  Items(StableSort([i \in DOMAIN all_diffs |->
    [key |-> all_diffs[i].weighted_abs, item |-> all_diffs[i]]]))

\* The cap decided by the views that hold a cell the rankings could take.
MaxPerViewByPopulatedViews(d) ==
  IF Cardinality({v \in DOMAIN d :
                    \E p \in DOMAIN d[v] : \E a \in DOMAIN d[v][p] :
                      a \notin EXCLUDE_ANGLES_FROM_RANKING}) > 1
  THEN 2 ELSE 3

\* A selection without the view balance.
MaxPerViewUnbalanced(d) == 3

\* Lines 155-156: the cap is decided by the view keys of the delta table.
MaxPerView(d) == IF Cardinality(DOMAIN d) > 1 THEN 2 ELSE 3

\* view_counts.get(view, 0)
CountOf(view_counts, view) ==
  IF view \in DOMAIN view_counts THEN view_counts[view] ELSE 0

\* Lines 160-167: the selection loop from position i on.
RECURSIVE SelectTop(_, _, _, _, _)
SelectTop(sorted, i, selected, view_counts, max_per_view) ==
  IF i > Len(sorted) \/ Len(selected) >= 3 THEN selected
  ELSE IF CountOf(view_counts, sorted[i].view) >= max_per_view
       THEN SelectTop(sorted, i + 1, selected, view_counts, max_per_view)
       ELSE SelectTop(sorted, i + 1, Append(selected, sorted[i]),
                      [v \in DOMAIN view_counts \cup {sorted[i].view} |->
                         IF v = sorted[i].view
                         THEN CountOf(view_counts, v) + 1
                         ELSE view_counts[v]],
                      max_per_view)

\* Lines 170-172: add the rank, drop the sort key.
WithRanks(selected) ==
  [i \in DOMAIN selected |->
     [angle_name |-> selected[i].angle_name, phase |-> selected[i].phase,
      view |-> selected[i].view, user_value |-> selected[i].user_value,
      reference_value |-> selected[i].reference_value,
      delta |-> selected[i].delta, rank |-> i]]

rank_differences(d, u, r) ==
  WithRanks(SelectTop(SortDiffs(AllDiffs(d, u, r)), 1, <<>>,
                      [v \in DOMAIN d |-> 0], MaxPerView(d)))

-----------------------------------------------------------------------------
(* rank_similarities                                                       *)

\* The filters of rank_similarities with the floor of rank_differences.
SimEligibleAboveFloor(d, u, r, c) ==
  /\ ~(Abs(d[c[1]][c[2]][c[3]]) < MIN_DELTA_DEGREES)
  /\ c[3] \notin EXCLUDE_ANGLES_FROM_RANKING

\* Lines 201-208.
SimEligible(d, u, r, c) ==
  /\ c[3] \notin EXCLUDE_ANGLES_FROM_RANKING
  /\ c[3] \in DOMAIN u[c[1]][c[2]].angles
  /\ c[3] \in DOMAIN r[c[1]][c[2]].angles

\* Lines 210-220.
SimEntry(d, u, r, c) ==
  [angle_name |-> c[3], phase |-> c[2], view |-> c[1],
   user_value |-> u[c[1]][c[2]].angles[c[3]].val,
   reference_value |-> r[c[1]][c[2]].angles[c[3]].val,
   delta |-> d[c[1]][c[2]][c[3]],
   abs_delta |-> Abs(d[c[1]][c[2]][c[3]])]

AllSims(d, u, r) ==
  LET cells == SelectSeq(CellsInOrder(d),
                         LAMBDA c : SimEligible(d, u, r, c))
  IN  [i \in DOMAIN cells |-> SimEntry(d, u, r, cells[i])]

\* Line 223: sort(key=abs_delta), ascending and stable.
SortSims(all_sims) ==
  Items(StableSort([i \in DOMAIN all_sims |->
    [key |-> -all_sims[i].abs_delta, item |-> all_sims[i]]]))

rank_similarities(d, u, r) ==
  WithRanks(SelectTop(SortSims(AllSims(d, u, r)), 1, <<>>,
                      [v \in DOMAIN d |-> 0], MaxPerView(d)))

-----------------------------------------------------------------------------
(* compute_similarity_score                                                *)

\* max_delta scaled by every weight, also a weight above 1.0.
ToleranceWeightAlways(angle_name, phase) == ANGLE_WEIGHTS(angle_name, phase)

\* Lines 280-285: the weight that scales max_delta, in tenths.  A weight
\* of 1.0 or more leaves max_delta at 45; a weight w below 1.0 widens it
\* to 45 / w.
ToleranceWeight(angle_name, phase) ==
  IF ANGLE_WEIGHTS(angle_name, phase) < 10
  THEN ANGLE_WEIGHTS(angle_name, phase) ELSE 10

\* The per-angle score without the max(0.0, ...) clamp.
CellScoreUnclamped(angle_name, phase, delta) ==
  45000 - Abs(delta) * ToleranceWeight(angle_name, phase)

\* Line 286: max(0, 1 - |delta| / max_delta) as a numerator over 45000:
\* |delta| / max_delta = |delta| * w / 45 with |delta| in hundredths and w
\* in tenths.
CellScore(angle_name, phase, delta) ==
  LET n == 45000 - Abs(delta) * ToleranceWeight(angle_name, phase)
  IN  IF n < 0 THEN 0 ELSE n

RECURSIVE SumSeq(_)
SumSeq(s) == IF s = <<>> THEN 0 ELSE Head(s) + SumSeq(Tail(s))

\* Lines 271-291: round(sum(scores) / len(scores) * 100).  Every delta of
\* a table built by compute_deltas is numeric, so line 276 skips nothing.
compute_similarity_score(d) ==
  LET cells == CellsInOrder(d)
      scores == [i \in DOMAIN cells |->
                   CellScore(cells[i][3], cells[i][2],
                             d[cells[i][1]][cells[i][2]][cells[i][3]])]
  IN  IF scores = <<>> THEN 0
      ELSE PyRound(SumSeq(scores) * 100, 45000 * Len(scores))

-----------------------------------------------------------------------------
(* feedback_engine.py                                                      *)

\* A FaultRule.  A bound that is None is <<>>, a bound b is <<b>>, in
\* hundredths of a degree.  description and coaching_tip are the opening
\* words of the rule's texts.
Rule(angle_name, phase, view, min_delta, max_delta, severity, title, description, coaching_tip) ==
  [angle_name |-> angle_name, phase |-> phase, view |-> view,
   min_delta |-> min_delta, max_delta |-> max_delta, severity |-> severity,
   title |-> title, description |-> description,
   coaching_tip |-> coaching_tip]

FAULT_RULES == <<
  \* lines 34-51
  Rule("spine_angle_dtl", "address", "dtl", <<>>, <<800>>, "moderate",
       "Too Upright at Setup",
       "Your spine angle at address is",
       "Hinge more from your hips at setup"),
  \* lines 52-69
  Rule("spine_angle_dtl", "address", "dtl", <<-800>>, <<>>, "moderate",
       "Too Much Forward Bend at Setup",
       "Your spine angle at address is",
       "Stand slightly taller at address"),
  \* lines 72-90
  Rule("spine_angle_dtl", "impact", "dtl", <<>>, <<600>>, "major",
       "Early Extension (Loss of Posture)",
       "Your spine angle at impact is",
       "Practice hitting balls with your backside against a wall or"),
  \* lines 91-109
  Rule("spine_angle_dtl", "impact", "dtl", <<-600>>, <<>>, "major",
       "Excessive Forward Bend at Impact",
       "Your spine angle at impact is",
       "Maintain your address spine angle through the swing"),
  \* lines 112-129
  Rule("spine_angle_dtl", "top", "dtl", <<>>, <<800>>, "moderate",
       "Posture Loss in Backswing",
       "Your spine angle at the top is",
       "Feel like you maintain your address posture throughout the"),
  \* lines 132-149
  Rule("lead_arm_torso", "top", "dtl", <<-1500>>, <<>>, "major",
       "Limited Backswing Arc",
       "Your lead arm reaches",
       "Focus on a fuller shoulder turn while keeping your left arm"),
  \* lines 150-168
  Rule("lead_arm_torso", "top", "dtl", <<>>, <<1500>>, "moderate",
       "Overswinging Past Parallel",
       "Your lead arm separation at the top is",
       "Try stopping your backswing when you feel your shoulder turn"),
  \* lines 171-189
  Rule("lead_arm_torso", "impact", "dtl", <<>>, <<1000>>, "moderate",
       "Arms Cast Away from Body at Impact",
       "Your lead arm-torso angle at impact is",
       "Feel your lead arm reconnect with your chest through impact"),
  \* lines 192-209
  Rule("right_elbow", "top", "dtl", <<>>, <<1500>>, "major",
       "Flying Right Elbow",
       "Your right elbow angle at the top is",
       "Keep a headcover or towel under your right arm during"),
  \* lines 210-227
  Rule("right_elbow", "top", "dtl", <<-1500>>, <<>>, "moderate",
       "Cramped Right Elbow at Top",
       "Your right elbow angle at the top is",
       "Allow your right elbow to fold naturally it should point"),
  \* lines 230-249
  Rule("left_elbow", "impact", "dtl", <<-1200>>, <<>>, "major",
       "Chicken Wing at Impact",
       "Your left elbow is",
       "Focus on extending your lead arm through the ball"),
  \* lines 252-269
  Rule("right_knee_flex", "address", "dtl", <<-1200>>, <<>>, "moderate",
       "Excessive Knee Flex at Setup",
       "Your right knee flex at address is",
       "Set up with athletic posture feel like you're about to field"),
  \* lines 270-287
  Rule("right_knee_flex", "address", "dtl", <<>>, <<1200>>, "moderate",
       "Legs Too Straight at Setup",
       "Your right knee flex at address is",
       "Add a slight flex to your knees at address"),
  \* lines 290-308
  Rule("right_knee_flex", "top", "dtl", <<>>, <<1000>>, "major",
       "Trail Leg Straightening (Sway)",
       "Your right knee flex at the top is",
       "Keep flex in your right knee throughout the backswing"),
  \* lines 309-327
  Rule("right_knee_flex", "top", "fo", <<>>, <<1000>>, "major",
       "Lower Body Sway",
       "Your right knee flex at the top is",
       "Keep flex in your right knee throughout the backswing"),
  \* lines 330-347
  Rule("right_wrist_cock", "top", "dtl", <<-1500>>, <<>>, "moderate",
       "Insufficient Wrist Hinge",
       "Your wrist cock at the top is",
       "Practice half swings focusing on maintaining wrist hinge"),
  \* lines 348-366
  Rule("right_wrist_cock", "top", "dtl", <<>>, <<1500>>, "minor",
       "Excessive Wrist Hinge",
       "Your wrist cock at the top is",
       "Let your wrists hinge naturally during the backswing"),
  \* lines 376-395
  Rule("spine_tilt_fo", "impact", "fo", <<>>, <<1000>>, "major",
       "Reverse Spine Angle at Impact",
       "Your spine tilt at impact is",
       "Feel your right shoulder work under and through"),
  \* lines 396-414
  Rule("spine_tilt_fo", "impact", "fo", <<-1000>>, <<>>, "moderate",
       "Excessive Spine Tilt at Impact",
       "Your spine tilt at impact is",
       "Focus on rotating through the ball rather than hanging back"),
  \* lines 417-434
  Rule("spine_tilt_fo", "address", "fo", <<>>, <<800>>, "moderate",
       "Setup Spine Tilt Too Upright",
       "Your spine tilt at address is",
       "At address"),
  \* lines 437-454
  Rule("lead_arm_torso", "top", "fo", <<-1500>>, <<>>, "moderate",
       "Restricted Shoulder Turn (Face-On)",
       "Your lead arm-torso angle at the top is",
       "Turn your lead shoulder behind the ball at the top"),
  \* lines 457-475
  Rule("lead_arm_torso", "impact", "fo", <<>>, <<800>>, "moderate",
       "Arm-Body Connection Lost at Impact",
       "Your arm-body angle at impact is",
       "Practice with a glove under your lead armpit"),
  \* lines 478-496
  Rule("left_knee_flex", "impact", "fo", <<-1200>>, <<>>, "moderate",
       "Lead Knee Collapsing at Impact",
       "Your left knee flex at impact is",
       "Feel your left leg firm up through impact"),
  \* lines 497-515
  Rule("left_knee_flex", "impact", "fo", <<>>, <<1200>>, "minor",
       "Locked Lead Knee at Impact",
       "Your left knee flex at impact is",
       "Allow a slight flex in your lead knee at impact"),
  \* lines 518-536
  Rule("left_elbow", "impact", "fo", <<-1200>>, <<>>, "major",
       "Lead Arm Breakdown at Impact",
       "Your left elbow is",
       "Focus on extending your lead arm through the ball"),
  \* lines 539-557
  Rule("right_elbow", "impact", "fo", <<-1000>>, <<>>, "moderate",
       "Trail Arm Still Bent at Impact",
       "Your right elbow is",
       "Feel your right arm extending through the ball")
>>

\* Both comparisons strict.
RuleMatchesStrict(rule, delta) ==
  IF rule.min_delta # <<>> /\ delta < rule.min_delta[1] THEN TRUE
  ELSE IF rule.max_delta # <<>> /\ delta > rule.max_delta[1] THEN TRUE
  ELSE FALSE

\* The two directions exchanged.
RuleMatchesSwapped(rule, delta) ==
  IF rule.min_delta # <<>> /\ delta >= rule.min_delta[1] THEN TRUE
  ELSE IF rule.max_delta # <<>> /\ delta <= rule.max_delta[1] THEN TRUE
  ELSE FALSE

\* A condition on the magnitude alone, whatever the direction.
RuleMatchesMagnitude(rule, delta) ==
  IF rule.min_delta # <<>> /\ Abs(delta) >= Abs(rule.min_delta[1]) THEN TRUE
  ELSE IF rule.max_delta # <<>> /\ Abs(delta) >= Abs(rule.max_delta[1])
       THEN TRUE
  ELSE FALSE

\* _rule_matches
RuleMatches(rule, delta) ==
  IF rule.min_delta # <<>> /\ delta <= rule.min_delta[1] THEN TRUE
  ELSE IF rule.max_delta # <<>> /\ delta >= rule.max_delta[1] THEN TRUE
  ELSE FALSE

\* The condition of the scan, with the view left out of the key.
RuleAppliesAnyView(rule, diff) ==
  /\ rule.angle_name = diff.angle_name
  /\ rule.phase = diff.phase
  /\ RuleMatches(rule, diff.delta)

\* Lines 608-613: the condition under which the scan stops at a rule.
RuleApplies(rule, diff) ==
  /\ rule.angle_name = diff.angle_name
  /\ rule.phase = diff.phase
  /\ rule.view = diff.view
  /\ RuleMatches(rule, diff.delta)

\* Lines 606-615: index of the rule the scan breaks at, from position i
\* on; 0 when the scan ends with matched_rule = None.
RECURSIVE MatchedRule(_, _)
MatchedRule(diff, i) ==
  IF i > Len(FAULT_RULES) THEN 0
  ELSE IF RuleApplies(FAULT_RULES[i], diff) THEN i
  ELSE MatchedRule(diff, i + 1)

\* _format_angle_name; the fallback name.replace("_", " ").title() is never
\* taken for the angle names of AngleOrder.
FormatAngleName(name) ==
  CASE name = "spine_angle_dtl" -> "Spine Angle"
    [] name = "lead_arm_torso" -> "Lead Arm-Torso Angle"
    [] name = "trail_arm_torso" -> "Trail Arm-Torso Angle"
    [] name = "right_elbow" -> "Right Elbow Angle"
    [] name = "left_elbow" -> "Left Elbow Angle"
    [] name = "right_knee_flex" -> "Right Knee Flex"
    [] name = "left_knee_flex" -> "Left Knee Flex"
    [] name = "right_wrist_cock" -> "Wrist Cock"
    [] name = "shoulder_line_angle" -> "Shoulder Tilt"
    [] name = "hip_line_angle" -> "Hip Tilt"
    [] name = "x_factor" -> "Shoulder-Hip Tilt Gap"
    [] name = "spine_tilt_fo" -> "Spine Tilt"

\* _format_phase
FormatPhase(phase) ==
  CASE phase = "address" -> "Address"
    [] phase = "top" -> "Top of Backswing"
    [] phase = "impact" -> "Impact"
    [] phase = "follow_through" -> "Follow-Through"

\* Lines 617-632: the entry built from the matched rule.  The description
\* is the template with the values format() substitutes.
RuleFeedback(diff, rule) ==
  [angle_name |-> diff.angle_name, phase |-> diff.phase, view |-> diff.view,
   user_value |-> diff.user_value, reference_value |-> diff.reference_value,
   delta |-> diff.delta, rank |-> diff.rank,
   severity |-> rule.severity,
   title |-> rule.title,
   description |-> [template |-> rule.description,
                    user_value |-> diff.user_value,
                    ref_value |-> diff.reference_value,
                    abs_delta |-> Abs(diff.delta),
                    direction |-> ""],
   coaching_tip |-> rule.coaching_tip]

\* The threshold of line 643 made inclusive.
FallbackSeverityInclusive(abs_delta) ==
  IF abs_delta >= 1200 THEN "moderate" ELSE "minor"

\* Line 643.
FallbackSeverity(abs_delta) ==
  IF abs_delta > 1200 THEN "moderate" ELSE "minor"

\* Line 638.
Direction(delta) == IF delta > 0 THEN "more" ELSE "less"

\* Lines 633-659: the generic entry when no rule matched.  The labels are
\* kept in the case _format_angle_name and _format_phase return.
FallbackFeedback(diff) ==
  [angle_name |-> diff.angle_name, phase |-> diff.phase, view |-> diff.view,
   user_value |-> diff.user_value, reference_value |-> diff.reference_value,
   delta |-> diff.delta, rank |-> diff.rank,
   severity |-> FallbackSeverity(Abs(diff.delta)),
   title |-> FormatAngleName(diff.angle_name) \o " at "
               \o FormatPhase(diff.phase),
   description |-> [template |-> "Your " \o FormatAngleName(diff.angle_name)
                                   \o " at " \o FormatPhase(diff.phase)
                                   \o " is",
                    user_value |-> diff.user_value,
                    ref_value |-> diff.reference_value,
                    abs_delta |-> Abs(diff.delta),
                    direction |-> Direction(diff.delta)],
   coaching_tip |-> "Compare your " \o FormatPhase(diff.phase)
                      \o " position to Tiger's: "
                      \o FormatAngleName(diff.angle_name) \o " "
                      \o ToString(Abs(diff.delta)) \o " "
                      \o Direction(diff.delta)]

\* Lines 596-659: one entry per ranked difference.
Feedback(diff) ==
  LET i == MatchedRule(diff, 1)
  IN  IF i # 0 THEN RuleFeedback(diff, FAULT_RULES[i])
      ELSE FallbackFeedback(diff)

generate_feedback(ranked_diffs) ==
  [k \in DOMAIN ranked_diffs |-> Feedback(ranked_diffs[k])]

-----------------------------------------------------------------------------
(* Inputs                                                                  *)

\* One (view, phase, angle) cell of the input: the user's value and the
\* reference value, either of which may be missing or non-numeric.
Entry(view, phase, angle_name, user, ref) ==
  [view |-> view, phase |-> phase, angle_name |-> angle_name,
   user |-> user, ref |-> ref]

\* The cells an input is drawn from: the values of the test fixtures and
\* the boundary cases of the wraparound, the floor and the tolerance.
Pool == {
  Entry("dtl", "impact", "spine_angle_dtl", Num(300), Num(187)),
  Entry("dtl", "impact", "right_knee_flex", Num(1400), Num(1543)),
  Entry("dtl", "impact", "right_knee_flex", Num(1500), Num(1543)),
  Entry("dtl", "top", "right_elbow", Num(800), Num(651)),
  Entry("dtl", "impact", "left_elbow", Num(1580), Num(1755)),
  Entry("dtl", "top", "lead_arm_torso", Num(1050), Num(1217)),
  Entry("dtl", "address", "spine_angle_dtl", Num(280), Num(189)),
  Entry("dtl", "address", "spine_angle_dtl", Num(639), Num(189)),
  Entry("dtl", "address", "spine_angle_dtl", Num(189), Num(189)),
  Entry("dtl", "address", "spine_angle_dtl", NonNumeric, Num(189)),
  Entry("dtl", "address", "right_elbow", Num(1501), Num(1726)),
  Entry("dtl", "address", "right_knee_flex", Num(1000), Num(1663)),
  Entry("dtl", "follow_through", "spine_angle_dtl", Num(84), Num(84)),
  Entry("dtl", "top", "right_wrist_cock", Num(1600), Absent),
  Entry("dtl", "top", "right_wrist_cock", Absent, Num(1745)),
  Entry("dtl", "impact", "right_wrist_cock", Num(1780), Num(1630)),
  Entry("fo", "address", "shoulder_line_angle", Num(1770), Num(-1690)),
  Entry("fo", "address", "shoulder_line_angle", Num(-1690), Num(1770)),
  Entry("fo", "address", "shoulder_line_angle", Num(1800), Num(0)),
  Entry("fo", "address", "hip_line_angle", Num(100), Num(50)),
  Entry("fo", "top", "x_factor", Num(2000), Num(-100)),
  Entry("fo", "impact", "spine_tilt_fo", Num(250), Num(180)),
  Entry("fo", "top", "right_knee_flex", Num(1780), Num(1640)),
  Entry("fo", "impact", "left_knee_flex", Num(1400), Num(1600))
}

SameCell(e, f) ==
  e.view = f.view /\ e.phase = f.phase /\ e.angle_name = f.angle_name

\* The sets of at most k pool entries, no two for the same cell.
RECURSIVE InputSets(_)
InputSets(k) ==
  IF k = 0 THEN {{}}
  ELSE LET P == InputSets(k - 1)
       IN  P \cup {s \cup {e} :
                     s \in P,
                     e \in {x \in Pool : TRUE}}

WellFormed(S) ==
  \A e \in S : \A f \in S : SameCell(e, f) => e = f

\* The nested dict of one side, { view: { phase: { "angles": {...} } } }:
\* a view, a phase or an angle is a key of the dict when the side has a
\* value under it.
SideValue(e, side) == IF side = "user" THEN e.user ELSE e.ref

AnglesDict(S, side) ==
  LET E == {e \in S : SideValue(e, side).kind # "absent"}
  IN  [view \in {e.view : e \in E} |->
        [phase \in {e.phase : e \in {x \in E : x.view = view}} |->
          [angles |->
            [a \in {e.angle_name :
                      e \in {x \in E : x.view = view /\ x.phase = phase}} |->
               SideValue(CHOOSE e \in E : /\ e.view = view
                                          /\ e.phase = phase
                                          /\ e.angle_name = a, side)]]]]

-----------------------------------------------------------------------------
(* scripts/detect_phases.py: signal extraction                             *)
(*                                                                         *)
(* Frames are numbered from 0 as in the code; a sequence s holds frame i   *)
(* at s[i + 1].  A landmark's y is an integer in hundredths of the frame   *)
(* height, its visibility an integer in tenths.  The arithmetic is exact: *)
(* every mean is kept as the sum it divides, so the smoothed signal is in  *)
(* units of 1/3000 (hundredths, times InterpDen for the interpolation,     *)
(* times the smoothing window), the rolling velocity in units of 1/30000,  *)
(* and a comparison against a threshold is made after multiplying both     *)
(* sides by the denominators.  The script computes in binary floating      *)
(* point: two quantities that are equal as real numbers can differ in      *)
(* their last bit there, and a comparison between them can then go either  *)
(* way.  The signals of SwingShapes are those on which no comparison of    *)
(* the script is decided by rounding.                                      *)

\* An array held in memory: its elements are computed once, when it is
\* built (np.array, line 69).
Array(s) == s \o <<>>

Min(a, b) == IF a <= b THEN a ELSE b

Max(a, b) == IF a >= b THEN a ELSE b

\* s[a:b] of Python for 0 <= a: the elements at 0-based positions a..b-1.
Slice(s, a, b) ==
  LET hi == Min(b, Len(s))
  IN  IF a >= hi THEN <<>> ELSE Array([k \in 1..(hi - a) |-> s[a + k]])

\* np.argmax / np.argmin of a non-empty array: the first position, from 0,
\* of the largest / smallest element.
ArgMax(s) ==
  (CHOOSE k \in DOMAIN s :
     /\ \A j \in DOMAIN s : s[j] <= s[k]
     /\ \A j \in 1..(k - 1) : s[j] < s[k]) - 1

ArgMin(s) ==
  (CHOOSE k \in DOMAIN s :
     /\ \A j \in DOMAIN s : s[j] >= s[k]
     /\ \A j \in 1..(k - 1) : s[j] > s[k]) - 1

\* np.max / np.nanmax and the smallest element of a non-empty array
\* without NaN.
MaxOf(s) == s[ArgMax(s) + 1]

MinOf(s) == s[ArgMin(s) + 1]

RECURSIVE SumRange(_, _, _)
\* Sum of s[lo..hi] (1-based, inclusive); 0 when the range is empty.
SumRange(s, lo, hi) ==
  IF lo > hi THEN 0 ELSE s[hi] + SumRange(s, lo, hi - 1)

\* np.diff
Diff(s) == Array([k \in 1..(Len(s) - 1) |-> s[k + 1] - s[k]])

\* DEFAULT_PARAMS, lines 29-41.
smoothing_window == 5

velocity_window == 10

\* still_threshold = 0.001, in units of 1/30000 (the rolling velocity).
still_threshold == 30

min_still_duration == 5

\* top_prominence_threshold = 0.05, in units of 1/3000.
top_prominence_threshold == 150

\* followthrough_search_window_sec = 3.0
followthrough_search_window_sec == 3

downswing_validation_frames == 20

\* min_visibility = 0.4, in tenths.
min_visibility == 4

\* Denominator that makes np.interp exact: a run of undetected frames
\* between two detected ones is 1 or 2 frames long.
InterpDen == 6

\* NaN in an array of floats is <<>>, a number v is <<v>>.
NaN == <<>>

\* extract_hand_signal, lines 46-69: the y array.
extract_hand_signal_y(frames, landmark_name) ==
  Array([k \in DOMAIN frames |->
     IF /\ frames[k].detected
        /\ landmark_name \in DOMAIN frames[k].landmarks
        /\ frames[k].landmarks[landmark_name].visibility >= min_visibility
     THEN <<frames[k].landmarks[landmark_name].y>>
     ELSE NaN])

\* extract_hand_signal, lines 46-69: the visibility array.
extract_hand_signal_vis(frames, landmark_name) ==
  Array([k \in DOMAIN frames |->
     IF /\ frames[k].detected
        /\ landmark_name \in DOMAIN frames[k].landmarks
        /\ frames[k].landmarks[landmark_name].visibility >= min_visibility
     THEN frames[k].landmarks[landmark_name].visibility
     ELSE 0])

\* Lines 82-88: np.interp over the NaN gaps of a signal that has a number
\* somewhere, times InterpDen.  Left and right of the numbers the nearest
\* number is repeated.
Interp(signal) ==
  LET valid == {k \in DOMAIN signal : signal[k] # NaN}
      Before(k) == {j \in valid : j < k}
      After(k) == {j \in valid : j > k}
      Last(S) == CHOOSE j \in S : \A i \in S : i <= j
      First(S) == CHOOSE j \in S : \A i \in S : i >= j
  IN  Array([k \in DOMAIN signal |->
         IF k \in valid THEN InterpDen * signal[k][1]
         ELSE IF Before(k) = {} THEN InterpDen * signal[First(After(k))][1]
         ELSE IF After(k) = {} THEN InterpDen * signal[Last(Before(k))][1]
         ELSE LET i0 == Last(Before(k))
                  i1 == First(After(k))
              IN  InterpDen * signal[i0][1]
                    + (InterpDen * (signal[i1][1] - signal[i0][1]) * (k - i0))
                        \div (i1 - i0)])

\* Lines 90-96 and 235-238: np.pad(mode="edge") by window // 2, a
\* convolution with np.ones(window) in mode "same", and the padding cut
\* off again: the sum of the window centred on each element, the first
\* and the last element standing in for what lies outside the array.
EdgeWindowSum(s, window) ==
  LET pad == window \div 2
      Clamp(j) == Max(1, Min(Len(s), j))
      PaddedAt(j) == s[Clamp(j)]
      RECURSIVE Acc(_, _)
      Acc(k, j) == IF j > k + pad THEN 0 ELSE PaddedAt(j) + Acc(k, j + 1)
  IN  Array([k \in DOMAIN s |-> Acc(k, k - pad)])

\* np.convolve(a, np.ones(window), mode="same") for non-empty a: the full
\* convolution has Len(a) + window - 1 elements, "same" keeps
\* max(Len(a), window) of them starting at (min(Len(a), window) - 1) // 2.
ConvolveSameOnes(a, window) ==
  LET off == (Min(Len(a), window) - 1) \div 2
      RECURSIVE FullAt(_, _)
      \* element t (from 0) of the full convolution, summed from index i on
      FullAt(t, i) ==
        IF i > Len(a) THEN 0
        ELSE (IF t - (i - 1) >= 0 /\ t - (i - 1) <= window - 1
              THEN a[i] ELSE 0) + FullAt(t, i + 1)
  IN  Array([k \in 1..Max(Len(a), window) |-> FullAt(k - 1 + off, 1)])

\* smooth_signal, lines 72-96, of the y array: the array itself when it is
\* NaN throughout, else smoothing_window times the smoothed signal, in
\* units of 1/(100 * InterpDen).
smooth_signal(signal, window) ==
  IF \A k \in DOMAIN signal : signal[k] = NaN THEN signal
  ELSE EdgeWindowSum(Interp(signal), window)

\* smooth_signal of the visibility array, which holds 0 and never NaN:
\* window times the smoothed visibility, in tenths.
smooth_visibility(visibility, window) == EdgeWindowSum(visibility, window)

\* compute_velocity, lines 99-107, of a signal without NaN and with two
\* elements or more: window times the rolling velocity.
compute_velocity(signal, window) ==
  <<0>> \o ConvolveSameOnes(Array([k \in 1..(Len(signal) - 1) |->
                               Abs(signal[k + 1] - signal[k])]), window)

\* avg_vis of select_primary_landmark, lines 119-124, as the pair of the
\* sum and the count of the visibilities it averages.
VisSum(frames, name) ==
  LET has == {k \in DOMAIN frames :
                frames[k].detected /\ name \in DOMAIN frames[k].landmarks}
      RECURSIVE Total(_)
      Total(k) ==
        IF k = 0 THEN 0
        ELSE (IF k \in has THEN frames[k].landmarks[name].visibility ELSE 0)
               + Total(k - 1)
  IN  [sum |-> Total(Len(frames)), count |-> Cardinality(has)]

\* select_primary_landmark, lines 110-139; an average over no frame is 0.0.
select_primary_landmark(frames) ==
  LET p == VisSum(frames, "right_wrist")
      f == VisSum(frames, "left_wrist")
      AtLeastMin(v) == v.count > 0 /\ v.sum >= min_visibility * v.count
      \* primary_vis >= fallback_vis
      PrimaryNotLower ==
        IF f.count = 0 THEN TRUE
        ELSE IF p.count = 0 THEN f.sum = 0
        ELSE p.sum * f.count >= f.sum * p.count
  IN  IF AtLeastMin(p) THEN "right_wrist"
      ELSE IF AtLeastMin(f) THEN "left_wrist"
      ELSE IF PrimaryNotLower THEN "right_wrist" ELSE "left_wrist"

-----------------------------------------------------------------------------
(* scripts/detect_phases.py: the four phases                               *)

\* int(fps * k / 1000) for fps in hundredths of a frame per second: the
\* number of whole frames in k thousandths of a second.
FramesIn(fps, k) == (fps * k) \div 100000

RECURSIVE RunsFrom(_, _, _, _, _)
\* The loops of lines 167-189, 391-402 and 585-609: the maximal runs of
\* elements below thresh in vel_region that are min_len long or longer, in
\* order, as <<first, last>> positions from 0.  i is the position examined
\* next, run_start the start of the run it continues, -1 for None.
RunsFrom(vel_region, thresh, min_len, i, run_start) ==
  IF i >= Len(vel_region)
  THEN IF run_start # -1 /\ Len(vel_region) - run_start >= min_len
       THEN << <<run_start, Len(vel_region) - 1>> >> ELSE <<>>
  ELSE IF vel_region[i + 1] < thresh
       THEN RunsFrom(vel_region, thresh, min_len, i + 1,
                     IF run_start = -1 THEN i ELSE run_start)
       ELSE (IF run_start # -1 /\ i - run_start >= min_len
             THEN << <<run_start, i - 1>> >> ELSE <<>>)
              \o RunsFrom(vel_region, thresh, min_len, i + 1, -1)

StillRuns(vel_region, thresh, min_len) ==
  RunsFrom(vel_region, thresh, min_len, 0, -1)

\* np.mean(s) > bound for a slice s given by its sum and length; the mean
\* of an empty slice is NaN, which is greater than nothing.  num / den is
\* the bound.
MeanAbove(s, num, den) ==
  Len(s) > 0 /\ den * SumRange(s, 1, Len(s)) > num * Len(s)

\* _has_preceding_address, lines 144-191.
has_preceding_address(local_min_idx, velocity, y_smooth, rough_address_y, fps) ==
  LET search_start == Max(0, local_min_idx - FramesIn(fps, 5000))
      vel_region == Slice(velocity, search_start, local_min_idx)
      runs == StillRuns(vel_region, still_threshold * 3, 3)
  IN  \E k \in DOMAIN runs :
        MeanAbove(Slice(y_smooth, search_start + runs[k][1],
                        search_start + runs[k][2] + 1),
                  rough_address_y, 2)

\* Lines 221-238: the smoothed directional velocity, in units of 1/750000
\* (the difference of the smoothed signal, times the smoothed visibility
\* clipped to [0.3, 1.0] in units of 1/50, times the window of 5).
DirVelSmooth(y_smooth, visibility) ==
  LET y_diff == Diff(y_smooth)
      vis_smooth == smooth_visibility(visibility, smoothing_window)
      vis_weight == Array([k \in 1..(Len(vis_smooth) - 1) |->
                       Max(15, Min(50, vis_smooth[k]))])
      weighted_diff == Array([k \in DOMAIN y_diff |-> y_diff[k] * vis_weight[k]])
  IN  EdgeWindowSum(weighted_diff, Max(3, smoothing_window))

RECURSIVE VelPeaks(_, _, _, _, _)
\* Lines 255-265: the velocity peaks collected from position i on.
VelPeaks(dir_vel_smooth, global_peak_vel, fps, i, vel_peaks) ==
  IF i >= Len(dir_vel_smooth) - 2 THEN vel_peaks
  ELSE IF /\ dir_vel_smooth[i + 1] >= dir_vel_smooth[i]
          /\ dir_vel_smooth[i + 1] >= dir_vel_smooth[i + 2]
          /\ 5 * dir_vel_smooth[i + 1] > 2 * global_peak_vel
       THEN IF /\ vel_peaks # <<>>
               /\ i - vel_peaks[Len(vel_peaks)] < FramesIn(fps, 500)
            THEN IF dir_vel_smooth[i + 1]
                      > dir_vel_smooth[vel_peaks[Len(vel_peaks)] + 1]
                 THEN VelPeaks(dir_vel_smooth, global_peak_vel, fps, i + 1,
                               [vel_peaks EXCEPT ![Len(vel_peaks)] = i])
                 ELSE VelPeaks(dir_vel_smooth, global_peak_vel, fps, i + 1,
                               vel_peaks)
            ELSE VelPeaks(dir_vel_smooth, global_peak_vel, fps, i + 1,
                          Append(vel_peaks, i))
       ELSE VelPeaks(dir_vel_smooth, global_peak_vel, fps, i + 1, vel_peaks)

\* return_ratio < 0.6 of lines 292-293 and the negation of line 344, for
\* the largest value max_return_y after the candidate.
ReturnRatioBelow(max_return_y, rough_address_y) ==
  IF rough_address_y > 0 THEN 10 * max_return_y < 6 * rough_address_y
  ELSE TRUE

\* Lines 272-320 for one velocity peak: the top it yields, or -1 when the
\* peak is passed over.
TopOfPeak(peak_frame, y_smooth, velocity, rough_address_y, fps) ==
  LET search_start == Max(0, peak_frame - FramesIn(fps, 3000))
      search_region == Slice(y_smooth, search_start, peak_frame + 1)
      local_min_idx == ArgMin(search_region) + search_start
      validation_end ==
        Min(local_min_idx + FramesIn(fps, 1500), Len(y_smooth))
      post_top_y == Slice(y_smooth, local_min_idx, validation_end)
  IN  IF Len(search_region) <= 2 THEN -1
      ELSE IF rough_address_y - y_smooth[local_min_idx + 1]
                <= top_prominence_threshold THEN -1
      ELSE IF /\ Len(post_top_y) > 0
              /\ ReturnRatioBelow(MaxOf(post_top_y), rough_address_y) THEN -1
      ELSE IF ~has_preceding_address(local_min_idx, velocity, y_smooth,
                                     rough_address_y, fps) THEN -1
      ELSE local_min_idx

RECURSIVE FirstTopOfPeaks(_, _, _, _, _, _)
\* Line 271: the peaks tried in order, the first top found wins.
FirstTopOfPeaks(vel_peaks, k, y_smooth, velocity, rough_address_y, fps) ==
  IF k > Len(vel_peaks) THEN -1
  ELSE LET t == TopOfPeak(vel_peaks[k], y_smooth, velocity, rough_address_y,
                          fps)
       IN  IF t # -1 THEN t
           ELSE FirstTopOfPeaks(vel_peaks, k + 1, y_smooth, velocity,
                                rough_address_y, fps)

\* Lines 323-327: the local minima over two frames on each side.
LocalMinima(y_smooth) ==
  SelectSeq(Array([k \in 1..Max(0, Len(y_smooth) - 4) |-> k + 1]),
            LAMBDA i : /\ y_smooth[i + 1] <= y_smooth[i]
                       /\ y_smooth[i + 1] <= y_smooth[i + 2]
                       /\ y_smooth[i + 1] <= y_smooth[i - 1]
                       /\ y_smooth[i + 1] <= y_smooth[i + 3])

\* A validation without the velocity test of lines 336-338.
ValidatedWithoutMotion(candidate, y_smooth, velocity, rough_address_y, fps) ==
  LET v_end == Min(candidate + FramesIn(fps, 1500), Len(y_smooth))
      post_y == Slice(y_smooth, candidate, v_end)
      max_return == IF Len(post_y) > 0 THEN MaxOf(post_y) ELSE 0
  IN  /\ ~ReturnRatioBelow(max_return, rough_address_y)
      /\ has_preceding_address(candidate, velocity, y_smooth,
                               rough_address_y, fps)

\* Lines 335-348: the test a qualified minimum passes to be validated.
Validated(candidate, y_smooth, velocity, rough_address_y, fps) ==
  LET window_end ==
        Min(candidate + downswing_validation_frames, Len(y_smooth))
      post_vel == Slice(velocity, candidate, window_end)
      v_end == Min(candidate + FramesIn(fps, 1500), Len(y_smooth))
      post_y == Slice(y_smooth, candidate, v_end)
      max_return == IF Len(post_y) > 0 THEN MaxOf(post_y) ELSE 0
  IN  /\ Len(post_vel) > 0
      /\ MaxOf(post_vel) > still_threshold * 3
      /\ ~ReturnRatioBelow(max_return, rough_address_y)
      /\ has_preceding_address(candidate, velocity, y_smooth,
                               rough_address_y, fps)

\* find_top_of_backswing, lines 194-373: the frame and the method of the
\* diagnostics.
find_top_of_backswing(y_smooth, velocity, rough_address_y, fps, visibility) ==
  LET dir_vel_smooth == DirVelSmooth(y_smooth, visibility)
      global_peak_vel == MaxOf(dir_vel_smooth)
      \* still_threshold * 5, from units of 1/30000 to units of 1/750000
      vel_peaks == IF global_peak_vel > still_threshold * 5 * 25
                   THEN VelPeaks(dir_vel_smooth, global_peak_vel, fps, 2,
                                 <<>>)
                   ELSE <<>>
      by_peak == FirstTopOfPeaks(vel_peaks, 1, y_smooth, velocity,
                                 rough_address_y, fps)
      minima == LocalMinima(y_smooth)
      qualified ==
        SelectSeq(minima,
                  LAMBDA m : rough_address_y - y_smooth[m + 1]
                               > top_prominence_threshold)
      validated ==
        SelectSeq(qualified,
                  LAMBDA c : Validated(c, y_smooth, velocity,
                                       rough_address_y, fps))
  IN  IF by_peak # -1
      THEN [frame |-> by_peak, method |-> "velocity_peak_backtrack"]
      ELSE IF validated # <<>>
      THEN [frame |-> validated[1], method |-> "prominence_fallback"]
      ELSE IF qualified # <<>>
      THEN [frame |-> qualified[1], method |-> "prominence_only"]
      ELSE IF Len(y_smooth) > 0
      THEN [frame |-> ArgMin(y_smooth), method |-> "global_min"]
      ELSE [frame |-> -1, method |-> "no_valid_top"]

\* Lines 419-423 and 440: whether the mean of y_smooth over run a is
\* greater than the mean over run b.
RunMeanGreater(y_smooth, a, b) ==
  SumRange(y_smooth, a[1] + 1, a[2] + 1) * (b[2] - b[1] + 1)
    > SumRange(y_smooth, b[1] + 1, b[2] + 1) * (a[2] - a[1] + 1)

\* Line 440: max(runs, key=mean) returns the first run no other run exceeds.
BestRun(y_smooth, runs) ==
  runs[CHOOSE k \in DOMAIN runs :
         /\ \A j \in DOMAIN runs : ~RunMeanGreater(y_smooth, runs[j], runs[k])
         /\ \A j \in 1..(k - 1) : RunMeanGreater(y_smooth, runs[k], runs[j])]

\* A find_address that looks for still runs in the whole signal.
find_address_whole_signal(y_smooth, velocity, top_frame) ==
  LET runs == StillRuns(Slice(velocity, 0, Len(y_smooth)), still_threshold,
                        min_still_duration)
      top_y == y_smooth[top_frame + 1]
      max_y == MaxOf(y_smooth)
      hands_low_runs ==
        SelectSeq(runs,
                  LAMBDA r : MeanAbove(Slice(y_smooth, r[1], r[2] + 1),
                                       top_y + max_y, 2))
      InRun(r) == r[1] + ArgMax(Slice(y_smooth, r[1], r[2] + 1))
  IN  IF runs = <<>> THEN [frame |-> 0, method |-> "no_still_period_found"]
      ELSE IF hands_low_runs # <<>>
      THEN [frame |-> InRun(hands_low_runs[Len(hands_low_runs)]),
            method |-> "hands_low_run"]
      ELSE [frame |-> InRun(BestRun(y_smooth, runs)),
            method |-> "fallback_run"]

\* find_address, lines 376-446.
find_address(y_smooth, velocity, top_frame) ==
  LET runs == StillRuns(Slice(velocity, 0, top_frame), still_threshold,
                        min_still_duration)
      top_y == y_smooth[top_frame + 1]
      max_y == MaxOf(Slice(y_smooth, 0, top_frame))
      \* avg_y > y_midpoint = (top_y + max_y) / 2
      hands_low_runs ==
        SelectSeq(runs,
                  LAMBDA r : MeanAbove(Slice(y_smooth, r[1], r[2] + 1),
                                       top_y + max_y, 2))
      InRun(r) == r[1] + ArgMax(Slice(y_smooth, r[1], r[2] + 1))
  IN  IF runs = <<>> THEN [frame |-> 0, method |-> "no_still_period_found"]
      ELSE IF hands_low_runs # <<>>
      THEN [frame |-> InRun(hands_low_runs[Len(hands_low_runs)]),
            method |-> "hands_low_run"]
      ELSE [frame |-> InRun(BestRun(y_smooth, runs)),
            method |-> "fallback_run"]

\* np.convolve(dir_vel, np.ones(3), mode="same") of line 478 for an array
\* longer than the kernel: what lies outside the array counts as 0.
ZeroWindowSum3(s) ==
  Array([k \in DOMAIN s |->
     (IF k > 1 THEN s[k - 1] ELSE 0) + s[k]
       + (IF k < Len(s) THEN s[k + 1] ELSE 0)])

FirstSettledAtMost(dir_vel_smooth, peak_vel, i) ==
  LET settled == {j \in i..(Len(dir_vel_smooth) - 1) :
                    100 * dir_vel_smooth[j + 1] <= 15 * peak_vel}
  IN  IF settled = {} THEN -1
      ELSE CHOOSE j \in settled : \A k \in settled : j <= k

RECURSIVE FirstSettled(_, _, _)
\* Lines 490-491: the first position from i on where the velocity is below
\* 15% of the peak; -1 when there is none.
FirstSettled(dir_vel_smooth, peak_vel, i) ==
  IF i >= Len(dir_vel_smooth) THEN -1
  ELSE IF 100 * dir_vel_smooth[i + 1] < 15 * peak_vel THEN i
  ELSE FirstSettled(dir_vel_smooth, peak_vel, i + 1)

\* find_impact, lines 449-544.
find_impact(y_smooth, velocity, top_frame, address_y, fps) ==
  LET window_frames == FramesIn(fps, 1000)
      search_end == Min(top_frame + window_frames, Len(y_smooth))
      search_region == Slice(y_smooth, top_frame, search_end)
      dir_vel == Diff(search_region)
      smoothed == Len(dir_vel) > 3
      \* in units of 1/9000 when smoothed, of 1/3000 when not
      dir_vel_smooth == IF smoothed THEN ZeroWindowSum3(dir_vel) ELSE dir_vel
      peak_idx == ArgMax(dir_vel_smooth)
      peak_vel == dir_vel_smooth[peak_idx + 1]
      \* still_threshold * 2 = 0.002
      fast == peak_vel > (IF smoothed THEN 18 ELSE 6)
      settled == FirstSettled(dir_vel_smooth, peak_vel, peak_idx + 1)
      decel == Array([k \in 1..(Len(dir_vel_smooth) - peak_idx - 1) |->
                  dir_vel_smooth[peak_idx + k] - dir_vel_smooth[peak_idx + k + 1]])
      \* search_region >= address_y * 0.85
      crossings == SelectSeq(Array([k \in DOMAIN search_region |-> k - 1]),
                             LAMBDA i : 100 * search_region[i + 1]
                                          >= 85 * address_y)
      first_crossing == crossings[1]
      refine_end == Min(first_crossing + 5, Len(search_region))
      refine_dist == Array([k \in 1..(refine_end - first_crossing) |->
                        Abs(search_region[first_crossing + k] - address_y)])
      distance_to_address == Array([k \in DOMAIN search_region |->
                                Abs(search_region[k] - address_y)])
  IN  IF Len(search_region) = 0
      THEN [frame |-> -1, method |-> "no_frames_after_top"]
      ELSE IF Len(search_region) > 1 /\ fast /\ settled # -1
      THEN [frame |-> top_frame + settled, method |-> "velocity_settle"]
      ELSE IF /\ Len(search_region) > 1 /\ fast
              /\ peak_idx + 2 < Len(dir_vel_smooth)
      THEN [frame |-> top_frame + peak_idx + ArgMax(decel) + 1,
            method |-> "max_deceleration"]
      ELSE IF crossings # <<>>
      THEN [frame |-> top_frame + first_crossing + ArgMin(refine_dist),
            method |-> "y_crossing_fallback"]
      ELSE [frame |-> top_frame + ArgMin(distance_to_address),
            method |-> "closest_approach_fallback"]

\* Lines 613-617: the local minima of the search region.
RegionMinima(search_region) ==
  SelectSeq(Array([k \in 1..Max(0, Len(search_region) - 4) |-> k + 1]),
            LAMBDA i : /\ search_region[i + 1] <= search_region[i]
                       /\ search_region[i + 1] <= search_region[i + 2])

\* find_follow_through, lines 547-632.
find_follow_through(y_smooth, velocity, impact_frame, fps) ==
  LET window_frames == FramesIn(fps, followthrough_search_window_sec * 1000)
      min_gap == FramesIn(fps, 300)
      search_end == Min(impact_frame + window_frames, Len(y_smooth))
      search_start == IF impact_frame + min_gap >= search_end
                      THEN impact_frame + 1
                      ELSE impact_frame + min_gap
      search_region == Slice(y_smooth, search_start, search_end)
      vel_region == Slice(velocity, search_start, search_end)
      runs == StillRuns(vel_region, still_threshold, 3)
      minima == RegionMinima(search_region)
  IN  IF search_start >= search_end
      THEN [frame |-> -1, method |-> "no_frames_after_impact"]
      ELSE IF runs # <<>>
      THEN [frame |-> search_start + runs[1][1]
                        + (runs[1][2] - runs[1][1] + 1) \div 2,
            method |-> "velocity_settle"]
      ELSE IF minima # <<>>
      THEN [frame |-> search_start + minima[1], method |-> "local_minimum"]
      ELSE [frame |-> search_start + ArgMin(search_region),
            method |-> "global_min"]

\* Lines 747-764: the result dict, and the diagnostics of lines 774-787 as
\* far as they name the methods.
PhasesDict(address, top, impact, follow_through) ==
  [name \in {"address", "top", "impact", "follow_through", "_diagnostics"} |->
     CASE name = "address" ->
            [frame |-> address.frame,
             description |-> "Setup position, club grounded behind ball"]
       [] name = "top" ->
            [frame |-> top.frame,
             description |-> "Top of backswing, hands at highest point"]
       [] name = "impact" ->
            [frame |-> IF impact.frame >= 0 THEN impact.frame ELSE 0,
             description |->
               "Club at ball, hands returning to address height"]
       [] name = "follow_through" ->
            [frame |-> IF follow_through.frame >= 0
                       THEN follow_through.frame ELSE 0,
             description |-> "Full extension post-impact, arms high"]
       [] name = "_diagnostics" ->
            [top |-> top.method, address |-> address.method,
             impact |-> impact.method,
             follow_through |-> follow_through.method]]

\* detect_phases, lines 637-788.  The outcome is a return with the result
\* dict, SystemExit (sys.exit(1) of lines 698 and 709) or an exception:
\* ZeroDivisionError at line 668 for fps = 0, ValueError from np.convolve
\* at line 106 when there are fewer than two frames.
detect_phases(landmarks_data) ==
  LET frames == landmarks_data.frames
      fps == landmarks_data.summary.fps
      landmark_name == select_primary_landmark(frames)
      y_raw == extract_hand_signal_y(frames, landmark_name)
      visibility == extract_hand_signal_vis(frames, landmark_name)
      y_smooth == smooth_signal(y_raw, smoothing_window)
      velocity == compute_velocity(y_smooth, velocity_window)
      rough_address_y == MaxOf(y_smooth)
      top == find_top_of_backswing(y_smooth, velocity, rough_address_y, fps,
                                   visibility)
      address == find_address(y_smooth, velocity, top.frame)
      address_y == y_smooth[address.frame + 1]
      impact == find_impact(y_smooth, velocity, top.frame, address_y, fps)
      follow_through ==
        IF impact.frame >= 0
        THEN find_follow_through(y_smooth, velocity, impact.frame, fps)
        ELSE [frame |-> -1, method |-> "no_impact_detected"]
  IN  IF fps = 0 THEN [outcome |-> "Exception", detail |-> "ZeroDivisionError"]
      ELSE IF Len(frames) < 2
      THEN [outcome |-> "Exception", detail |-> "ValueError"]
      ELSE IF \A k \in DOMAIN y_raw : y_raw[k] = NaN
      THEN [outcome |-> "SystemExit", detail |-> "1"]
      ELSE IF top.frame < 0 THEN [outcome |-> "SystemExit", detail |-> "1"]
      ELSE [outcome |-> "return",
            phases |-> PhasesDict(address, top, impact, follow_through)]

-----------------------------------------------------------------------------
(* backend/app/pipeline/phase_detector.py                                  *)

PHASE_NAMES == {"address", "top", "impact", "follow_through"}

\* Lines 81-83: the frame numbers of the detected frames.
DetectedFrames(landmarks_data) ==
  {landmarks_data.frames[k].frame :
     k \in {j \in DOMAIN landmarks_data.frames :
              landmarks_data.frames[j].detected}}

\* Lines 86-92 with any detected frame taken, not a nearest one.
NearestAny(frame, detected_frames) ==
  IF frame \in detected_frames \/ detected_frames = {} THEN {frame}
  ELSE detected_frames

\* Lines 86-92: the frames a phase frame may be replaced by.  min() over a
\* set returns the first of the nearest frames in the set's iteration
\* order, which the language leaves open: any of the nearest frames.
Nearest(frame, detected_frames) ==
  IF frame \in detected_frames \/ detected_frames = {} THEN {frame}
  ELSE {f \in detected_frames :
          \A g \in detected_frames : Abs(f - frame) <= Abs(g - frame)}

\* Lines 78-92: the dicts the snapping loop can leave for a script result
\* without its _diagnostics.
Snapped(phases, detected_frames) ==
  LET N(name) == IF name \in DOMAIN phases
                 THEN Nearest(phases[name].frame, detected_frames) ELSE {0}
  IN  {[name \in DOMAIN phases |->
          [frame |-> CASE name = "address" -> c[1]
                       [] name = "top" -> c[2]
                       [] name = "impact" -> c[3]
                       [] name = "follow_through" -> c[4],
           description |-> phases[name].description]] :
         c \in N("address") \X N("top") \X N("impact") \X N("follow_through")}

\* detect_swing_phases without the except clause of lines 67-72: SystemExit
\* leaves the function as it is.
detect_swing_phases_no_exit_clause(landmarks_data, script) ==
  IF script.outcome = "SystemExit"
  THEN {[outcome |-> "SystemExit", detail |-> script.detail]}
  ELSE IF script.outcome = "Exception"
  THEN {[outcome |-> "PhaseDetectionError", detail |-> script.detail]}
  ELSE LET phases == [name \in DOMAIN script.phases \ {"_diagnostics"} |->
                        script.phases[name]]
       IN  IF PHASE_NAMES \subseteq DOMAIN phases
           THEN {[outcome |-> "return", phases |-> p] :
                   p \in Snapped(phases, DetectedFrames(landmarks_data))}
           ELSE {[outcome |-> "PhaseDetectionError",
                  detail |-> "Missing phase"]}

\* detect_swing_phases, lines 33-107, for the outcome script of the call
\* of _detect_phases at line 61: the outcomes it can have.
detect_swing_phases(landmarks_data, script) ==
  IF script.outcome = "SystemExit"
  THEN {[outcome |-> "PhaseDetectionError",
         detail |-> "Could not detect top of backswing."]}
  ELSE IF script.outcome = "Exception"
  THEN {[outcome |-> "PhaseDetectionError", detail |-> script.detail]}
  ELSE LET phases == [name \in DOMAIN script.phases \ {"_diagnostics"} |->
                        script.phases[name]]
       IN  IF PHASE_NAMES \subseteq DOMAIN phases
           THEN {[outcome |-> "return", phases |-> p] :
                   p \in Snapped(phases, DetectedFrames(landmarks_data))}
           ELSE {[outcome |-> "PhaseDetectionError",
                  detail |-> "Missing phase"]}

-----------------------------------------------------------------------------
(* scripts/calculate_angles.py and backend/app/pipeline/angle_calculator.py *)

\* Lines 322-351: the names of the angles computed for a frame, in the
\* order they enter the dict.  right_wrist_cock needs a right wrist
\* visibility above 0.4.
AngleNamesOf(frame_data, view_label) ==
  IF view_label = "dtl"
  THEN <<"spine_angle_dtl", "lead_arm_torso", "trail_arm_torso",
         "right_elbow", "left_elbow", "right_knee_flex">>
         \o (IF frame_data.landmarks["right_wrist"].visibility > 4
             THEN <<"right_wrist_cock">> ELSE <<>>)
         \o <<"shoulder_width_apparent", "hip_width_apparent",
              "shoulder_hip_offset_x">>
  ELSE IF view_label = "fo"
  THEN <<"shoulder_line_angle", "hip_line_angle", "x_factor",
         "spine_tilt_fo", "lead_arm_torso", "right_knee_flex",
         "left_knee_flex", "right_elbow", "left_elbow">>
  ELSE <<>>

\* Lines 304-309: the first frame of the sequence numbered frame_num, as
\* its position; 0 for None.
FrameData(frames, frame_num) ==
  IF \E k \in DOMAIN frames : frames[k].frame = frame_num
  THEN CHOOSE k \in DOMAIN frames :
         /\ frames[k].frame = frame_num
         /\ \A j \in 1..(k - 1) : frames[j].frame # frame_num
  ELSE 0

\* Lines 311-313 without the test of the detected flag.
PhasesWithDataUnchecked(frames, phases) ==
  {name \in DOMAIN phases : FrameData(frames, phases[name].frame) # 0}

\* Lines 311-313: the phases analyze_video computes angles for.
PhasesWithData(frames, phases) ==
  {name \in DOMAIN phases :
     /\ FrameData(frames, phases[name].frame) # 0
     /\ frames[FrameData(frames, phases[name].frame)].detected}

\* The calc_ functions read frame_data["landmarks"][name] (get_landmark_2d,
\* lines 54-57): a KeyError when the landmark is not there.  The landmark
\* extractor writes all landmarks of a detected frame or none, so the
\* wrists stand for all of them.
LandmarksMissing(frame_data) ==
  ~({"right_wrist", "left_wrist"} \subseteq DOMAIN frame_data.landmarks)

\* analyze_video, lines 291-363.  An angle is a function of the landmarks
\* of its frame that is not computed here: the value of angle a at frame f
\* is the pair <<a, f>>.
analyze_video(landmarks_data, phases, view_label) ==
  LET frames == landmarks_data.frames
      with_data == PhasesWithData(frames, phases)
      Data(name) == frames[FrameData(frames, phases[name].frame)]
  IN  IF \E name \in with_data : LandmarksMissing(Data(name))
      THEN [outcome |-> "Exception", detail |-> "KeyError"]
      ELSE [outcome |-> "return",
            results |->
              [name \in with_data |->
                 [frame |-> phases[name].frame,
                  timestamp_sec |-> Data(name).timestamp_sec,
                  description |-> phases[name].description,
                  angles |->
                    LET names == AngleNamesOf(Data(name), view_label)
                    IN  [a \in {names[k] : k \in DOMAIN names} |->
                           <<a, phases[name].frame>>]]]]

\* calculate_angles, lines 29-66 of angle_calculator.py.
calculate_angles(landmarks_data, phases, view) ==
  LET script == analyze_video(landmarks_data, phases, view)
  IN  IF script.outcome = "Exception"
      THEN [outcome |-> "AngleCalculationError", detail |-> script.detail]
      ELSE IF DOMAIN script.results = {}
      THEN [outcome |-> "AngleCalculationError",
            detail |-> "No angle results produced"]
      ELSE [outcome |-> "return", results |-> script.results]

-----------------------------------------------------------------------------
(* Landmark data                                                           *)

\* The vertical position of the hands over a swing, in hundredths of the
\* frame height (y grows downwards): hold frames at the address level,
\* back frames up to the top level, down frames back to the address level,
\* follow frames up to the finish level, finish frames held there.
Swing(hold, back, down, follow, finish, address_level, top_level, finish_level) ==
  [k \in 1..hold |-> address_level]
    \o [j \in 1..back |->
          address_level + ((top_level - address_level) * j) \div back]
    \o [j \in 1..down |->
          top_level + ((address_level - top_level) * j) \div down]
    \o [j \in 1..follow |->
          address_level + ((finish_level - address_level) * j) \div follow]
    \o [k \in 1..finish |-> finish_level]

\* Which frames carry a pose: every frame, every second frame from frame 0
\* on (frame_step = 2, landmark_extractor.py line 130), every second frame
\* from frame 1 on, none, or a hand-picked few as the snapping test has.
Detected(pattern, frame) ==
  CASE pattern = "all" -> TRUE
    [] pattern = "even" -> frame % 2 = 0
    [] pattern = "odd" -> frame % 2 = 1
    [] pattern = "none" -> FALSE
    [] pattern = "sparse" -> frame \in {6, 8}

\* One frame as landmark_extractor.py lines 119-150 writes it; both wrists
\* at the same height.  timestamp_sec is in units of 0.0001 s.
Frame(frame, y, visibility, detected, fps) ==
  [frame |-> frame,
   timestamp_sec |-> IF fps > 0 THEN PyRound(frame * 1000000, fps) ELSE 0,
   detected |-> detected,
   landmarks |-> IF detected
                 THEN [name \in {"right_wrist", "left_wrist"} |->
                         [y |-> y, visibility |-> visibility]]
                 ELSE <<>>]

\* The dict landmark extraction returns, lines 180-198, as far as phase
\* detection and angle calculation read it; fps in hundredths.
Landmarks(ys, visibility, pattern, fps) ==
  [summary |-> [fps |-> fps],
   frames |-> Array([k \in DOMAIN ys |->
                 Frame(k - 1, ys[k], visibility, Detected(pattern, k - 1),
                       fps)])]

-----------------------------------------------------------------------------
(* The parts of the state a run does not use keep these values.            *)

PipelineIdle ==
  /\ user_angles = <<>>
  /\ ref_angles = <<>>
  /\ deltas = <<>>
  /\ similarity_score = 0
  /\ ranked = <<>>
  /\ top_differences = <<>>
  /\ ranked_sims = <<>>
  /\ pc = "idle"

RuleIdle ==
  /\ rm_rule = <<>>
  /\ rm_delta = 0
  /\ rm_result = <<>>

\* A step that has not run has no outcome.
NotRun == [outcome |-> "none"]

PhaseIdle ==
  /\ ph_landmarks = <<>>
  /\ ph_view = ""
  /\ ph_mock = <<>>
  /\ ph_script = NotRun
  /\ ph_phases = NotRun
  /\ ph_angles = NotRun
  /\ ph_pc = "idle"

StdoutIdle ==
  /\ so_stdout = 0
  /\ so_old = <<>>
  /\ so_buf = <<>>
  /\ so_console = <<>>
  /\ so_left = <<>>
  /\ so_call = <<>>
  /\ so_captured = <<>>
  /\ so_result = <<>>
  /\ so_pc = <<>>

SignalIdle ==
  /\ sg_landmarks = <<>>
  /\ sg_y_smooth = <<>>
  /\ sg_velocity = NotRun
  /\ sg_top = NotRun
  /\ sg_address = NotRun
  /\ sg_impact = NotRun
  /\ sg_pc = "idle"

ShareIdle ==
  /\ sh_rows = <<>>
  /\ sh_now = 0
  /\ sh_results = {}
  /\ sh_last = [op |-> "none"]
  /\ sh_revoked = {}

-----------------------------------------------------------------------------
(* The pipeline, backend/app/pipeline/__init__.py lines 553-565            *)

Init ==
  /\ \E S \in {s \in InputSets(MaxCells) : WellFormed(s)} :
       /\ user_angles = AnglesDict(S, "user")
       /\ ref_angles = AnglesDict(S, "ref")
  /\ deltas = <<>>
  /\ similarity_score = 0
  /\ ranked = <<>>
  /\ top_differences = <<>>
  /\ ranked_sims = <<>>
  /\ pc = "compute_deltas"
  /\ RuleIdle
  /\ PhaseIdle
  /\ StdoutIdle
  /\ SignalIdle
  /\ ShareIdle

\* Line 553.
ComputeDeltas ==
  /\ pc = "compute_deltas"
  /\ deltas' = compute_deltas(user_angles, ref_angles)
  /\ pc' = "compute_similarity_score"
  /\ UNCHANGED <<user_angles, ref_angles, similarity_score, ranked,
                 top_differences, ranked_sims>>
  /\ UNCHANGED <<ruleVars, phaseVars, stdoutVars, signalVars, shareVars>>

\* Line 556.
ComputeSimilarityScore ==
  /\ pc = "compute_similarity_score"
  /\ similarity_score' = compute_similarity_score(deltas)
  /\ pc' = "rank_differences"
  /\ UNCHANGED <<user_angles, ref_angles, deltas, ranked, top_differences,
                 ranked_sims>>
  /\ UNCHANGED <<ruleVars, phaseVars, stdoutVars, signalVars, shareVars>>

\* Line 560.
RankDifferences ==
  /\ pc = "rank_differences"
  /\ ranked' = rank_differences(deltas, user_angles, ref_angles)
  /\ pc' = "generate_feedback"
  /\ UNCHANGED <<user_angles, ref_angles, deltas, similarity_score,
                 top_differences, ranked_sims>>
  /\ UNCHANGED <<ruleVars, phaseVars, stdoutVars, signalVars, shareVars>>

\* Line 561.
GenerateFeedback ==
  /\ pc = "generate_feedback"
  /\ top_differences' = generate_feedback(ranked)
  /\ pc' = "rank_similarities"
  /\ UNCHANGED <<user_angles, ref_angles, deltas, similarity_score, ranked,
                 ranked_sims>>
  /\ UNCHANGED <<ruleVars, phaseVars, stdoutVars, signalVars, shareVars>>

\* Line 564.
RankSimilarities ==
  /\ pc = "rank_similarities"
  /\ ranked_sims' = rank_similarities(deltas, user_angles, ref_angles)
  /\ pc' = "done"
  /\ UNCHANGED <<user_angles, ref_angles, deltas, similarity_score, ranked,
                 top_differences>>
  /\ UNCHANGED <<ruleVars, phaseVars, stdoutVars, signalVars, shareVars>>

Next ==
  \/ ComputeDeltas
  \/ ComputeSimilarityScore
  \/ RankDifferences
  \/ GenerateFeedback
  \/ RankSimilarities

Spec == Init /\ [][Next]_vars

\* Position of the pipeline.  No step changes the result of an earlier
\* step, so a result is examined in the state its step returns to.
DeltasDone == pc = "compute_similarity_score"

ScoreDone == pc = "rank_differences"

RankedDone == pc = "generate_feedback"

FeedbackDone == pc = "rank_similarities"

-----------------------------------------------------------------------------
(* _rule_matches on its own, as tests/test_feedback_engine.py calls it:    *)
(* a rule built by _make_rule with any pair of bounds, and any delta.      *)

\* Largest magnitude of a delta handed to _rule_matches, in hundredths.
MaxRuleDelta == 1600

\* The thresholds of the catalog and of the tests; <<>> is None.
RuleBounds ==
  {<<>>} \cup {<<b>> : b \in {-1500, -1200, -800, -600, 600, 800, 1000, 1500}}

\* _make_rule
make_rule(min_delta, max_delta) ==
  Rule("test_angle", "impact", "dtl", min_delta, max_delta, "major", "Test",
       "Test {user_value:.1f}", "Test tip")

RuleDeltas == {d \in -MaxRuleDelta..MaxRuleDelta : d % 10 = 0}

RuleInit ==
  /\ PipelineIdle
  /\ PhaseIdle
  /\ StdoutIdle
  /\ SignalIdle
  /\ ShareIdle
  /\ \E lo \in RuleBounds, hi \in RuleBounds : rm_rule = make_rule(lo, hi)
  /\ rm_delta \in RuleDeltas
  /\ rm_result = <<>>

CallRuleMatches ==
  /\ rm_result = <<>>
  /\ rm_result' = <<RuleMatches(rm_rule, rm_delta)>>
  /\ UNCHANGED <<rm_rule, rm_delta>>
  /\ UNCHANGED <<pipelineVars, phaseVars, stdoutVars, signalVars, shareVars>>

RuleNext == CallRuleMatches

RuleSpec == RuleInit /\ [][RuleNext]_vars

-----------------------------------------------------------------------------
(* generate_feedback on its own, as tests/test_feedback_engine.py calls    *)
(* it: on a hand-built list of ranked differences.                         *)

\* Largest number of differences in the list handed to generate_feedback.
MaxRanked == 1

\* _make_ranked_diff; rank_differences rounds neither value, the delta is
\* user - reference.
make_ranked_diff(angle, phase, view, delta, ref, rank) ==
  [angle_name |-> angle, phase |-> phase, view |-> view,
   user_value |-> ref + delta, reference_value |-> ref,
   delta |-> delta, rank |-> rank]

\* Deltas rank_differences lets through (|delta| >= MIN_DELTA_DEGREES), on
\* both sides of the fallback threshold and of the catalog's thresholds.
FeedbackDeltas ==
  {sign * m : sign \in {-1, 1}, m \in {500, 1190, 1200, 1210, 1500}}

\* The (view, phase, angle) keys rank_differences can emit.
RankableCells ==
  {<<v, p, a>> \in {"dtl", "fo"} \X {"address", "top", "impact",
                                       "follow_through"}
                   \X {"spine_angle_dtl", "lead_arm_torso", "trail_arm_torso",
                       "right_elbow", "left_elbow", "right_knee_flex",
                       "right_wrist_cock", "spine_tilt_fo", "left_knee_flex"} :
     /\ \E i \in DOMAIN AngleOrder(v) : AngleOrder(v)[i] = a
     /\ a \notin EXCLUDE_ANGLES_FROM_RANKING}

\* The lists of n differences on distinct cells, ranks 1..n.
RECURSIVE RankedLists(_)
RankedLists(n) ==
  IF n = 0 THEN {<<>>}
  ELSE {Append(l, make_ranked_diff(c[3], c[2], c[1], d, 1630, n)) :
          l \in RankedLists(n - 1), c \in RankableCells,
          d \in FeedbackDeltas}

DistinctCells(l) ==
  \A i, j \in DOMAIN l :
     (l[i].angle_name = l[j].angle_name /\ l[i].phase = l[j].phase
        /\ l[i].view = l[j].view) => i = j

FeedbackInit ==
  /\ user_angles = <<>>
  /\ ref_angles = <<>>
  /\ deltas = <<>>
  /\ similarity_score = 0
  /\ \E n \in 1..MaxRanked :
       \E l \in RankedLists(n) : DistinctCells(l) /\ ranked = l
  /\ top_differences = <<>>
  /\ ranked_sims = <<>>
  /\ pc = "generate_feedback"
  /\ RuleIdle
  /\ PhaseIdle
  /\ StdoutIdle
  /\ SignalIdle
  /\ ShareIdle

FeedbackNext == GenerateFeedback

FeedbackSpec == FeedbackInit /\ [][FeedbackNext]_vars

-----------------------------------------------------------------------------
(* Phase detection and angle calculation of one view,                      *)
(* backend/app/pipeline/__init__.py lines 537-545                          *)

\* Frame counts of the five parts of a swing signal.  A swing may lack any
\* part: a clip may start after the address or end at impact.  Left out
\* are the shapes on which the script's result hangs on the rounding of a
\* tie: a follow-through into a long finish, and a short downswing right
\* after the hold.
MaxFinish == 12

SwingShapes ==
  {s \in {0, 8} \X {0, 6} \X {0, 3, 6} \X {0, 5} \X {0, 6, MaxFinish} :
     /\ s[1] + s[2] + s[3] + s[4] + s[5] >= 1
     /\ ~(s[4] > 0 /\ s[5] > 6)
     /\ s # <<8, 0, 3, 0, 0>>}

\* Hand heights at address and at the top, in hundredths of the frame.
AddressLevel == 70

TopLevel == 30

FinishLevels == {20, 60}

\* Frame rates in hundredths of a frame per second; 0 is what a video
\* without a frame rate in its header reports.
FrameRates == {0, 50, 1000, 3000}

DetectionPatterns == {"all", "even", "odd", "none"}

\* Visibility of the wrists in the detected frames, in tenths.
WristVisibility == 9

SwingInputs ==
  {Landmarks(Swing(s[1], s[2], s[3], s[4], s[5], AddressLevel, TopLevel,
                   level),
             WristVisibility, pattern, fps) :
     s \in SwingShapes, level \in FinishLevels, pattern \in DetectionPatterns,
     fps \in FrameRates}

\* _valid_phases of test_phase_detector.py with the frames as arguments.
valid_phases(address, top, impact, follow_through) ==
  [name \in PHASE_NAMES |->
     [frame |-> CASE name = "address" -> address
                  [] name = "top" -> top
                  [] name = "impact" -> impact
                  [] name = "follow_through" -> follow_through,
      description |-> name]]

\* Number of frames of the landmark data the mocked script runs on.
MockFrames == 9

\* Landmark data as test_snaps_to_detected_frames builds it: frames
\* 0..MockFrames-1, detected by pattern.
MockLandmarks(pattern) ==
  Landmarks([k \in 1..MockFrames |-> 50], WristVisibility, pattern, 3000)

\* What the tests let the script do: return valid phases (with or without
\* _diagnostics), return phases that lack one, exit, raise.
MockOutcomes ==
  {[outcome |-> "return", phases |-> valid_phases(1, 3, 5, 7)],
   [outcome |-> "return",
    phases |-> [name \in PHASE_NAMES \cup {"_diagnostics"} |->
                  IF name = "_diagnostics" THEN [top |-> "mock"]
                  ELSE valid_phases(0, 2, 4, 8)[name]]],
   [outcome |-> "SystemExit", detail |-> "1"],
   [outcome |-> "Exception", detail |-> "bad data"]}
    \cup {[outcome |-> "return",
           phases |-> [name \in PHASE_NAMES \ {missing} |->
                         valid_phases(1, 3, 5, 7)[name]]] :
            missing \in PHASE_NAMES}

\* Landmark data for direct calls of calculate_angles: MockLandmarks, or
\* the same with the landmarks of one detected frame missing.
AngleLandmarks ==
  {MockLandmarks(pattern) : pattern \in DetectionPatterns}
    \cup {[MockLandmarks("all") EXCEPT !.frames[4].landmarks = <<>>]}

\* Phases for direct calls of calculate_angles: frames inside and outside
\* the video, and dicts that lack phases.
AnglePhases ==
  {[name \in names |-> valid_phases(0, top, 5, follow_through)[name]] :
     names \in (SUBSET PHASE_NAMES) \ {{}},
     top \in {2, 3},
     follow_through \in {7, MockFrames}}

\* A run of the two steps on extracted landmarks, a run with the script
\* mocked, or a call of calculate_angles alone.
PhaseInit ==
  /\ PipelineIdle
  /\ RuleIdle
  /\ StdoutIdle
  /\ SignalIdle
  /\ ShareIdle
  /\ ph_view \in {"dtl", "fo"}
  /\ ph_script = NotRun
  /\ ph_angles = NotRun
  /\ \/ /\ ph_landmarks \in SwingInputs
        /\ ph_mock = <<>>
        /\ ph_phases = NotRun
        /\ ph_pc = "detect_swing_phases"
     \/ /\ \E pattern \in DetectionPatterns \cup {"sparse"} :
             ph_landmarks = MockLandmarks(pattern)
        /\ \E m \in MockOutcomes : ph_mock = <<m>>
        /\ ph_phases = NotRun
        /\ ph_pc = "detect_swing_phases"
     \/ /\ ph_landmarks \in AngleLandmarks
        /\ ph_mock = <<>>
        /\ \E p \in AnglePhases :
             ph_phases = [outcome |-> "return", phases |-> p]
        /\ ph_pc = "calculate_angles"

\* Line 537: detect_swing_phases; PhaseDetectionError ends the analysis.
DetectSwingPhases ==
  /\ ph_pc = "detect_swing_phases"
  /\ LET script == IF ph_mock = <<>> THEN detect_phases(ph_landmarks)
                   ELSE ph_mock[1]
     IN  /\ ph_script' = script
         /\ \E r \in detect_swing_phases(ph_landmarks, script) :
              /\ ph_phases' = r
              /\ ph_pc' = IF r.outcome = "return" THEN "calculate_angles"
                          ELSE "failed"
  /\ UNCHANGED <<ph_landmarks, ph_view, ph_mock, ph_angles>>
  /\ UNCHANGED <<pipelineVars, ruleVars, stdoutVars, signalVars,
                 shareVars>>

\* Line 545: calculate_angles; AngleCalculationError ends the analysis.
CalculateAngles ==
  /\ ph_pc = "calculate_angles"
  /\ ph_angles' = calculate_angles(ph_landmarks, ph_phases.phases, ph_view)
  /\ ph_pc' = IF ph_angles'.outcome = "return" THEN "done" ELSE "failed"
  /\ UNCHANGED <<ph_landmarks, ph_view, ph_mock, ph_script, ph_phases>>
  /\ UNCHANGED <<pipelineVars, ruleVars, stdoutVars, signalVars,
                 shareVars>>

PhaseNext ==
  \/ DetectSwingPhases
  \/ CalculateAngles

PhaseSpec == PhaseInit /\ [][PhaseNext]_vars

-----------------------------------------------------------------------------
(* Two analyses in the thread pool, routes/analysis.py lines 61-78, each   *)
(* inside the redirect_stdout block of phase_detector.py lines 60-61 or of *)
(* angle_calculator.py lines 50-51                                         *)

Threads == {1, 2}

\* Largest number of lines a script prints in one call.
MaxPrints == 2

\* The functions that run a script under redirect_stdout.
Redirecting == {"detect_swing_phases", "calculate_angles"}

\* What a call returns when it runs alone: a function of the call and its
\* thread's arguments, which no other thread writes.
ResultAlone(t) == <<so_call[t], t>>

StdoutInit ==
  /\ PipelineIdle
  /\ RuleIdle
  /\ PhaseIdle
  /\ SignalIdle
  /\ ShareIdle
  /\ so_stdout = 0
  /\ so_old = [t \in Threads |-> 0]
  /\ so_buf = [t \in Threads |-> <<>>]
  /\ so_console = <<>>
  /\ so_left \in [Threads -> 0..MaxPrints]
  /\ so_call \in [Threads -> Redirecting]
  /\ so_captured = [t \in Threads |-> <<>>]
  /\ so_result = [t \in Threads |-> <<>>]
  /\ so_pc = [t \in Threads |-> "call"]

\* redirect_stdout.__enter__: save sys.stdout, put the StringIO in its
\* place.
EnterRedirect(t) ==
  /\ so_pc[t] = "call"
  /\ so_old' = [so_old EXCEPT ![t] = so_stdout]
  /\ so_stdout' = t
  /\ so_pc' = [so_pc EXCEPT ![t] = "script"]
  /\ UNCHANGED <<so_buf, so_console, so_left, so_call, so_captured,
                 so_result>>
  /\ UNCHANGED <<pipelineVars, ruleVars, phaseVars, signalVars,
                 shareVars>>

\* A print of the script: a line goes to whatever sys.stdout is now.
ScriptPrint(t) ==
  /\ so_pc[t] = "script"
  /\ so_left[t] > 0
  /\ so_left' = [so_left EXCEPT ![t] = @ - 1]
  /\ IF so_stdout = 0
     THEN /\ so_console' = Append(so_console, t)
          /\ UNCHANGED so_buf
     ELSE /\ so_buf' = [so_buf EXCEPT ![so_stdout] = Append(@, t)]
          /\ UNCHANGED so_console
  /\ UNCHANGED <<so_stdout, so_old, so_call, so_captured, so_result, so_pc>>
  /\ UNCHANGED <<pipelineVars, ruleVars, phaseVars, signalVars,
                 shareVars>>

\* The script returns and redirect_stdout.__exit__ puts back what
\* __enter__ saved.
ExitRedirect(t) ==
  /\ so_pc[t] = "script"
  /\ so_left[t] = 0
  /\ so_stdout' = so_old[t]
  /\ so_result' = [so_result EXCEPT ![t] = ResultAlone(t)]
  /\ so_pc' = [so_pc EXCEPT ![t] = "exited"]
  /\ UNCHANGED <<so_old, so_buf, so_console, so_left, so_call, so_captured>>
  /\ UNCHANGED <<pipelineVars, ruleVars, phaseVars, signalVars,
                 shareVars>>

\* stdout_capture.getvalue() and the return of the call.  (Only
\* detect_swing_phases reads the capture; calculate_angles drops it.)
ReadCapture(t) ==
  /\ so_pc[t] = "exited"
  /\ so_captured' = [so_captured EXCEPT ![t] = so_buf[t]]
  /\ so_pc' = [so_pc EXCEPT ![t] = "done"]
  /\ UNCHANGED <<so_stdout, so_old, so_buf, so_console, so_left, so_call,
                 so_result>>
  /\ UNCHANGED <<pipelineVars, ruleVars, phaseVars, signalVars,
                 shareVars>>

StdoutNext ==
  \E t \in Threads :
    \/ EnterRedirect(t)
    \/ ScriptPrint(t)
    \/ ExitRedirect(t)
    \/ ReadCapture(t)

StdoutSpec == StdoutInit /\ [][StdoutNext]_vars

-----------------------------------------------------------------------------
(* The steps of detect_phases, scripts/detect_phases.py lines 661-724, on   *)
(* a signal with a visible hand in some frame and a frame rate above 0     *)

\* A synthetic swing with one minimum: the hands still at the address
\* level, up to the top level, back down to the address level, and still
\* there.  The minimum is injected at frame hold + back - 1.
SyntheticSwing(hold, back, down, rest) ==
  Swing(hold, back, down, 0, rest, AddressLevel, TopLevel, AddressLevel)

\* The shapes <<hold, back, down, rest>>, less those on which find_impact
\* decides between two equal decelerations by floating-point rounding.
SyntheticShapes ==
  {s \in {8, 12} \X {3, 6, 8} \X {3, 6, 8} \X {8, 12} :
     ~(s[2] = 3 /\ s[3] = 8)}

\* A swing with a finish above the top, after which the hands drop to the
\* address level within lower frames: a second descent, steeper than the
\* downswing.
SwingThenLower(s, lower) ==
  Swing(s[1], s[2], s[3], s[4], s[5], AddressLevel, TopLevel, 20)
    \o Swing(0, 0, lower, 0, 6, AddressLevel, 20, AddressLevel)

\* Frames of a hold long enough for the rolling velocity to fall below the
\* still threshold.
LongHold == 20

\* A swing preceded by a long hold at another level and a move away from
\* it: a waggle <<from, to>> and back before the address (down > 0), or a
\* start with the hands elsewhere and no hold before the backswing
\* (down = 0).
PrecededSwing(up, down, level, back, downswing) ==
  Swing(LongHold, up, down, 0, 0, level[1], level[2], level[1])
    \o Swing(IF down = 0 THEN 0 ELSE LongHold, back, downswing, 0, 8,
             AddressLevel, TopLevel, AddressLevel)

PrecedingLevels == {<<66, 50>>, <<66, 72>>, <<30, 50>>, <<40, 70>>}

PrecededShapes == {2, 3} \X {0, 3} \X PrecedingLevels \X {3, 6} \X {3, 6}

\* A swing with an uneven downswing: the smoothed downward velocity peaks
\* at 20 and, five frames after the top, is 3, 15% of the peak to the
\* last bit in floating point as well.
UnevenSwing(rest) ==
  Array([k \in 1..8 |-> AddressLevel]) \o <<63, 55, 48, 40>>
    \o <<41, 52, 54, 63>> \o Array([k \in 1..rest |-> 63])

\* Largest number of frames of a short signal.
MaxShort == 12

\* Signals of a few frames: flat, or a descent to the address level (the
\* descent of 4 frames is decided by floating-point rounding).
ShortSignals ==
  {[k \in 1..n |-> AddressLevel] : n \in 1..MaxShort}
    \cup {Swing(0, 0, n, 0, 0, AddressLevel, TopLevel, AddressLevel) :
            n \in (1..MaxShort) \ {4}}

SignalInputs ==
  {Landmarks(SyntheticSwing(s[1], s[2], s[3], s[4]), WristVisibility,
             "all", fps) :
     s \in SyntheticShapes, fps \in {1000, 3000}}
    \cup {Landmarks(SwingThenLower(s, lower), WristVisibility, "all", 1000) :
            s \in {<<8, 6, 6, 5, 6>>, <<12, 6, 6, 5, 6>>}, lower \in {2, 3}}
    \cup {Landmarks(ys, WristVisibility, "all", 1000) : ys \in ShortSignals}
    \cup {Landmarks(PrecededSwing(s[1], s[2], s[3], s[4], s[5]),
                     WristVisibility, "all", 1000) : s \in PrecededShapes}
    \cup {Landmarks(UnevenSwing(rest), WristVisibility, "all", fps) :
            rest \in {8, 12}, fps \in {1000, 3000}}
    \cup {d \in SwingInputs :
            /\ d.summary.fps > 0
            /\ \E k \in DOMAIN d.frames : d.frames[k].detected}

SignalInit ==
  /\ PipelineIdle
  /\ RuleIdle
  /\ PhaseIdle
  /\ StdoutIdle
  /\ ShareIdle
  /\ sg_landmarks \in SignalInputs
  /\ sg_y_smooth = <<>>
  /\ sg_velocity = NotRun
  /\ sg_top = NotRun
  /\ sg_address = NotRun
  /\ sg_impact = NotRun
  /\ sg_pc = "smooth_signal"

\* The hand signal of lines 671-675.
SignalLandmark == select_primary_landmark(sg_landmarks.frames)

SignalRaw == extract_hand_signal_y(sg_landmarks.frames, SignalLandmark)

SignalVisibility == extract_hand_signal_vis(sg_landmarks.frames, SignalLandmark)

\* Lines 671-676.
SmoothSignal ==
  /\ sg_pc = "smooth_signal"
  /\ sg_y_smooth' = smooth_signal(SignalRaw, smoothing_window)
  /\ sg_pc' = "compute_velocity"
  /\ UNCHANGED <<sg_landmarks, sg_velocity, sg_top, sg_address, sg_impact>>
  /\ UNCHANGED <<pipelineVars, ruleVars, phaseVars, stdoutVars,
                 shareVars>>

\* Line 677: np.convolve raises ValueError when np.diff of the signal is
\* empty.
ComputeVelocity ==
  /\ sg_pc = "compute_velocity"
  /\ sg_velocity' =
       IF Len(sg_y_smooth) < 2
       THEN [outcome |-> "Exception", detail |-> "ValueError"]
       ELSE [outcome |-> "return",
             velocity |-> compute_velocity(sg_y_smooth, velocity_window)]
  /\ sg_pc' = IF Len(sg_y_smooth) < 2 THEN "failed" ELSE "find_top"
  /\ UNCHANGED <<sg_landmarks, sg_y_smooth, sg_top, sg_address, sg_impact>>
  /\ UNCHANGED <<pipelineVars, ruleVars, phaseVars, stdoutVars,
                 shareVars>>

\* Lines 699-709; the smoothed signal of these inputs has no NaN.
FindTop ==
  /\ sg_pc = "find_top"
  /\ sg_top' = find_top_of_backswing(sg_y_smooth, sg_velocity.velocity,
                                     MaxOf(sg_y_smooth),
                                     sg_landmarks.summary.fps,
                                     SignalVisibility)
  /\ sg_pc' = IF sg_top'.frame < 0 THEN "exited" ELSE "find_address"
  /\ UNCHANGED <<sg_landmarks, sg_y_smooth, sg_velocity, sg_address,
                 sg_impact>>
  /\ UNCHANGED <<pipelineVars, ruleVars, phaseVars, stdoutVars,
                 shareVars>>

\* Lines 714-717.
FindAddress ==
  /\ sg_pc = "find_address"
  /\ sg_address' = find_address(sg_y_smooth, sg_velocity.velocity,
                                sg_top.frame)
  /\ sg_pc' = "find_impact"
  /\ UNCHANGED <<sg_landmarks, sg_y_smooth, sg_velocity, sg_top, sg_impact>>
  /\ UNCHANGED <<pipelineVars, ruleVars, phaseVars, stdoutVars,
                 shareVars>>

\* Lines 722-724.
FindImpact ==
  /\ sg_pc = "find_impact"
  /\ sg_impact' = find_impact(sg_y_smooth, sg_velocity.velocity,
                              sg_top.frame,
                              sg_y_smooth[sg_address.frame + 1],
                              sg_landmarks.summary.fps)
  /\ sg_pc' = "done"
  /\ UNCHANGED <<sg_landmarks, sg_y_smooth, sg_velocity, sg_top, sg_address>>
  /\ UNCHANGED <<pipelineVars, ruleVars, phaseVars, stdoutVars,
                 shareVars>>

SignalNext ==
  \/ SmoothSignal
  \/ ComputeVelocity
  \/ FindTop
  \/ FindAddress
  \/ FindImpact

SignalSpec == SignalInit /\ [][SignalNext]_vars

-----------------------------------------------------------------------------
(* app/storage/share_store.py and the share endpoints of                   *)
(* app/routes/share.py.  None is <<>>; a value v that may be None is <<v>>. *)

\* Largest number of rows of the shares table.
MaxTokens == 2

\* Largest number of steps of the clock.
MaxTicks == 1

\* Days that pass in one step of the clock.
DaysPerTick == 100

\* expires_days of create_share, line 70, and of the endpoint, line 63.
DefaultExpiresDays == 90

Uploads == {"upload1", "upload2"}

Views == {"dtl", "fo"}

\* The analyses shares are asked for.
Analyses == {<<"upload1", "dtl">>, <<"upload1", "fo">>, <<"upload2", "dtl">>}

\* user_id of the authenticated user of a request: the one who shares, and
\* another who tries to revoke.
Users == {"user-abc", "user-xyz"}

Sharers == {"user-abc"}

\* uuid.uuid4().hex, line 83: a token no row has.  Tokens are numbered in
\* the order of their creation; 0 is a token that is never created.
NewToken(rows) == Len(rows) + 1

\* create_share, lines 66-103: the table after the INSERT.  expires_days is
\* <<>> for None; 0 days gives no expiry either (line 86).  created_at is
\* the place of the row in the table: the clock of line 84 never goes back.
create_share(rows, now, upload_id, view, user_id, expires_days) ==
  Append(rows,
         [share_token |-> NewToken(rows),
          upload_id |-> upload_id,
          view |-> view,
          expires_at |-> IF expires_days # <<>> /\ expires_days[1] # 0
                         THEN <<now + expires_days[1]>> ELSE <<>>,
          is_public |-> 1,
          user_id |-> user_id])

\* The row of a token, lines 118-120: <<>> when there is none.
RowOf(rows, share_token) ==
  IF \E k \in DOMAIN rows : rows[k].share_token = share_token
  THEN <<rows[CHOOSE k \in DOMAIN rows : rows[k].share_token = share_token]>>
  ELSE <<>>

\* get_share, lines 106-139.
get_share(rows, now, share_token) ==
  LET row == RowOf(rows, share_token)
  IN  IF row = <<>> THEN <<>>
      ELSE IF row[1].is_public = 0 THEN <<>>
      ELSE IF row[1].expires_at # <<>> /\ now > row[1].expires_at[1] THEN <<>>
      ELSE row

\* A revoke_share whose UPDATE leaves is_public as it is.
revoke_share_keeps_public(rows, share_token) ==
  [rows |-> rows, result |-> RowOf(rows, share_token) # <<>>]

\* revoke_share, lines 142-153: the table after the UPDATE, and whether a
\* row was updated.
revoke_share(rows, share_token) ==
  [rows |-> [k \in DOMAIN rows |->
               IF rows[k].share_token = share_token
               THEN [rows[k] EXCEPT !.is_public = 0] ELSE rows[k]],
   result |-> RowOf(rows, share_token) # <<>>]

RECURSIVE PublicRowsDesc(_, _, _)
\* The rows of an upload with is_public = 1, latest first, among the first
\* k rows.
PublicRowsDesc(rows, upload_id, k) ==
  IF k = 0 THEN <<>>
  ELSE (IF rows[k].upload_id = upload_id /\ rows[k].is_public = 1
        THEN <<rows[k]>> ELSE <<>>)
         \o PublicRowsDesc(rows, upload_id, k - 1)

\* get_shares_for_upload, lines 156-166.  created_at grows with the order
\* of insertion, so ORDER BY created_at DESC is the reverse of that order.
get_shares_for_upload(rows, upload_id) ==
  PublicRowsDesc(rows, upload_id, Len(rows))

RECURSIVE FirstOfView(_, _)
\* The loop of routes/share.py lines 47-55: the first share of the view,
\* <<>> when there is none.
FirstOfView(existing, view) ==
  IF existing = <<>> THEN <<>>
  ELSE IF Head(existing).view = view THEN <<Head(existing)>>
  ELSE FirstOfView(Tail(existing), view)

\* create_share_token, routes/share.py lines 25-70: the response and the
\* table after the request.
create_share_token(rows, now, results, upload_id, view, user_id) ==
  LET existing == FirstOfView(get_shares_for_upload(rows, upload_id), view)
  IN  IF <<upload_id, view>> \notin results
      THEN [rows |-> rows, status |-> 404]
      ELSE IF existing # <<>>
      THEN [rows |-> rows, status |-> 200,
            share_token |-> existing[1].share_token,
            expires_at |-> existing[1].expires_at]
      ELSE [rows |-> create_share(rows, now, upload_id, view, <<user_id>>,
                                  <<DefaultExpiresDays>>),
            status |-> 200,
            share_token |-> NewToken(rows),
            expires_at |-> <<>>]

\* revoke_share_token, routes/share.py lines 178-200.
revoke_share_token(rows, now, share_token, user_id) ==
  LET share == get_share(rows, now, share_token)
  IN  IF share = <<>> THEN [rows |-> rows, status |-> 404]
      ELSE IF share[1].user_id # <<>> /\ share[1].user_id[1] # user_id
      THEN [rows |-> rows, status |-> 403]
      ELSE [rows |-> revoke_share(rows, share_token).rows, status |-> 200,
            share_token |-> share_token]

ShareInit ==
  /\ PipelineIdle
  /\ RuleIdle
  /\ PhaseIdle
  /\ StdoutIdle
  /\ SignalIdle
  /\ sh_rows = <<>>
  /\ sh_now = 0
  /\ sh_results = {<<"upload1", "dtl">>, <<"upload1", "fo">>}
  /\ sh_last = [op |-> "init_db"]
  /\ sh_revoked = {}

ShareOthers == <<pipelineVars, ruleVars, phaseVars, stdoutVars, signalVars>>

\* share_store.create_share called as the tests call it, without a user
\* and with the default expiry.
CreateShare ==
  \E a \in Analyses :
    /\ Len(sh_rows) < MaxTokens
    /\ sh_rows' = create_share(sh_rows, sh_now, a[1], a[2], <<>>,
                               <<DefaultExpiresDays>>)
    /\ sh_last' = [op |-> "create_share", result |-> NewToken(sh_rows)]
    /\ UNCHANGED <<sh_now, sh_results, sh_revoked>>
    /\ UNCHANGED ShareOthers

GetShare ==
  \E share_token \in 0..MaxTokens :
    /\ sh_last' = [op |-> "get_share",
                   found |-> get_share(sh_rows, sh_now, share_token) # <<>>]
    /\ UNCHANGED <<sh_rows, sh_now, sh_results, sh_revoked>>
    /\ UNCHANGED ShareOthers

RevokeShare ==
  \E share_token \in 0..MaxTokens :
    LET r == revoke_share(sh_rows, share_token)
    IN  /\ sh_rows' = r.rows
        /\ sh_last' = [op |-> "revoke_share", share_token |-> share_token,
                       result |-> r.result]
        /\ sh_revoked' = IF r.result THEN sh_revoked \cup {share_token}
                         ELSE sh_revoked
        /\ UNCHANGED <<sh_now, sh_results>>
        /\ UNCHANGED ShareOthers

GetSharesForUpload ==
  \E upload_id \in Uploads :
    /\ sh_last' = [op |-> "get_shares_for_upload",
                   count |-> Len(get_shares_for_upload(sh_rows, upload_id))]
    /\ UNCHANGED <<sh_rows, sh_now, sh_results, sh_revoked>>
    /\ UNCHANGED ShareOthers

\* POST /share.
CreateShareToken ==
  \E a \in Analyses, user_id \in Sharers :
    LET r == create_share_token(sh_rows, sh_now, sh_results, a[1], a[2],
                                user_id)
    IN  /\ Len(r.rows) <= MaxTokens
        /\ sh_rows' = r.rows
        /\ sh_last' = [op |-> "create_share_token",
                       response |-> [f \in DOMAIN r \ {"rows"} |-> r[f]]]
        /\ UNCHANGED <<sh_now, sh_results, sh_revoked>>
        /\ UNCHANGED ShareOthers

\* DELETE /share/{share_token}.
RevokeShareToken ==
  \E share_token \in 0..MaxTokens, user_id \in Users :
    LET r == revoke_share_token(sh_rows, sh_now, share_token, user_id)
    IN  /\ sh_rows' = r.rows
        /\ sh_last' = [op |-> "revoke_share_token",
                       response |-> [f \in DOMAIN r \ {"rows"} |-> r[f]]]
        /\ sh_revoked' = IF r.status = 200
                         THEN sh_revoked \cup {share_token} ELSE sh_revoked
        /\ UNCHANGED <<sh_now, sh_results>>
        /\ UNCHANGED ShareOthers

\* Time passes.
Tick ==
  /\ sh_now + DaysPerTick <= MaxTicks * DaysPerTick
  /\ sh_now' = sh_now + DaysPerTick
  /\ sh_last' = [op |-> "tick"]
  /\ UNCHANGED <<sh_rows, sh_results, sh_revoked>>
  /\ UNCHANGED ShareOthers

ShareNext ==
  \/ CreateShare
  \/ GetShare
  \/ RevokeShare
  \/ GetSharesForUpload
  \/ CreateShareToken
  \/ RevokeShareToken
  \/ Tick

ShareSpec == ShareInit /\ [][ShareNext]_vars

-----------------------------------------------------------------------------
(* generate_feedback on one difference, for every key of the catalog and   *)
(* every delta                                                             *)

\* The (view, phase, angle) keys of FAULT_RULES.
CatalogKeys ==
  {<<FAULT_RULES[i].view, FAULT_RULES[i].phase, FAULT_RULES[i].angle_name>> :
     i \in DOMAIN FAULT_RULES}

CatalogInit ==
  /\ user_angles = <<>>
  /\ ref_angles = <<>>
  /\ deltas = <<>>
  /\ similarity_score = 0
  /\ \E c \in CatalogKeys \cup RankableCells, d \in RuleDeltas :
       ranked = <<make_ranked_diff(c[3], c[2], c[1], d, 1630, 1)>>
  /\ top_differences = <<>>
  /\ ranked_sims = <<>>
  /\ pc = "generate_feedback"
  /\ RuleIdle
  /\ PhaseIdle
  /\ StdoutIdle
  /\ SignalIdle
  /\ ShareIdle

CatalogNext == GenerateFeedback

CatalogSpec == CatalogInit /\ [][CatalogNext]_vars

-----------------------------------------------------------------------------
(* Properties                                                              *)

ViewSet == {VIEWS[i] : i \in DOMAIN VIEWS}

PhaseSet == {PHASES[i] : i \in DOMAIN PHASES}

AngleNames ==
  UNION {{AngleOrder(v)[k] : k \in DOMAIN AngleOrder(v)} : v \in ViewSet}

\* The (view, phase, angle) triples that are cells of a delta table.
HasCell(d, v, p, a) ==
  v \in DOMAIN d /\ p \in DOMAIN d[v] /\ a \in DOMAIN d[v][p]

CellSet(d) ==
  UNION {UNION {{<<v, p, a>> : a \in DOMAIN d[v][p]} : p \in DOMAIN d[v]} :
           v \in DOMAIN d}

\* The value of one side at a cell that the side has.
SideHas(t, v, p, a) ==
  v \in DOMAIN t /\ p \in DOMAIN t[v] /\ a \in DOMAIN t[v][p].angles

WrapCells == {c \in CellSet(deltas) : c[3] \in WRAPAROUND_ANGLES}

UserVal(c) == user_angles[c[1]][c[2]].angles[c[3]].val

RefVal(c) == ref_angles[c[1]][c[2]].angles[c[3]].val

DeltaAt(c) == deltas[c[1]][c[2]][c[3]]

\* C1 as stated: every delta reported for a wraparound angle lies in the
\* half-open interval (-180, 180].
C1_DeltaInHalfOpenInterval ==
  DeltasDone =>
    \A c \in WrapCells : DeltaAt(c) > -18000 /\ DeltaAt(c) <= 18000

\* C1 amended: every delta reported for a wraparound angle lies in the
\* closed interval [-180, 180], and a difference of exactly 180 is reported
\* as -180.
C1_DeltaInClosedInterval ==
  DeltasDone =>
    \A c \in WrapCells :
      /\ DeltaAt(c) >= -18000 /\ DeltaAt(c) <= 18000
      /\ UserVal(c) - RefVal(c) = 18000 => DeltaAt(c) = -18000

\* C1 witness: a wraparound cell whose plain difference is 180 or more in
\* magnitude has been computed.
C1_Witness ==
  /\ DeltasDone
  /\ \E c \in WrapCells : Abs(UserVal(c) - RefVal(c)) >= 18000

\* C2: the delta of a wraparound angle is congruent to user - reference
\* modulo 360 and at most 180 in magnitude; 177 against -169 gives -14,
\* -169 against 177 gives +14, and a difference below 180 in magnitude is
\* returned unchanged.
C2_ShortestPath ==
  DeltasDone =>
    \A c \in WrapCells :
      /\ (DeltaAt(c) - (UserVal(c) - RefVal(c))) % 36000 = 0
      /\ Abs(DeltaAt(c)) <= 18000
      /\ (UserVal(c) = 17700 /\ RefVal(c) = -16900) => DeltaAt(c) = -1400
      /\ (UserVal(c) = -16900 /\ RefVal(c) = 17700) => DeltaAt(c) = 1400
      /\ Abs(UserVal(c) - RefVal(c)) < 18000
           => DeltaAt(c) = UserVal(c) - RefVal(c)

\* C2 witness: the delta of user = -169 against reference = 177 has been
\* computed.
C2_Witness ==
  /\ DeltasDone
  /\ \E c \in WrapCells : UserVal(c) = -16900 /\ RefVal(c) = 17700

\* C3: a cell is populated exactly when the view is in both inputs, the
\* phase is under that view in both inputs and the angle is numeric on both
\* sides; a populated cell of a non-wraparound angle holds user - reference.
C3_CellsPopulated ==
  DeltasDone =>
    \A v \in ViewSet : \A p \in PhaseSet : \A a \in AngleNames :
      /\ HasCell(deltas, v, p, a) <=>
           /\ SideHas(user_angles, v, p, a)
           /\ SideHas(ref_angles, v, p, a)
           /\ user_angles[v][p].angles[a].kind = "num"
           /\ ref_angles[v][p].angles[a].kind = "num"
      /\ (HasCell(deltas, v, p, a) /\ a \notin WRAPAROUND_ANGLES)
           => deltas[v][p][a] = user_angles[v][p].angles[a].val
                                  - ref_angles[v][p].angles[a].val

\* C3 witness: an x_factor cell has been populated while an angle that is
\* non-numeric on the user's side, and one missing on a side, got no cell.
C3_Witness ==
  /\ DeltasDone
  /\ \E c \in CellSet(deltas) : c[3] = "x_factor"
  /\ \E v \in ViewSet : \E p \in PhaseSet : \E a \in AngleNames :
       /\ SideHas(user_angles, v, p, a)
       /\ SideHas(ref_angles, v, p, a)
       /\ user_angles[v][p].angles[a].kind = "str"
       /\ ~HasCell(deltas, v, p, a)
  /\ \E v \in ViewSet : \E p \in PhaseSet : \E a \in AngleNames :
       SideHas(user_angles, v, p, a) /\ ~SideHas(ref_angles, v, p, a)

\* Number of entries of a ranked list that come from a view.
FromView(list, v) == Cardinality({i \in DOMAIN list : list[i].view = v})

WeightedAbs(e) == ANGLE_WEIGHTS(e.angle_name, e.phase) * Abs(e.delta)

\* C5: the ranked list is in non-increasing order of weighted magnitude,
\* its i-th entry has rank i, and an entry of weight 1.5 and magnitude a
\* ranks ahead of an entry of weight 1.0 and magnitude b when 1.5a > b > a.
C5_RankOrder ==
  RankedDone =>
    /\ \A i \in DOMAIN ranked : ranked[i].rank = i
    /\ \A i \in DOMAIN ranked : \A j \in DOMAIN ranked :
         i < j => WeightedAbs(ranked[i]) >= WeightedAbs(ranked[j])
    /\ \A i \in DOMAIN ranked : \A j \in DOMAIN ranked :
         ( /\ ANGLE_WEIGHTS(ranked[i].angle_name, ranked[i].phase) = 15
           /\ ANGLE_WEIGHTS(ranked[j].angle_name, ranked[j].phase) = 10
           /\ 15 * Abs(ranked[i].delta) > 10 * Abs(ranked[j].delta)
           /\ Abs(ranked[j].delta) > Abs(ranked[i].delta) )
         => ranked[i].rank < ranked[j].rank

\* C5 witness: a weight-1.5 entry ranked ahead of a weight-1.0 entry of
\* larger raw magnitude.
C5_Witness ==
  /\ RankedDone
  /\ \E i \in DOMAIN ranked : \E j \in DOMAIN ranked :
       /\ i < j
       /\ ANGLE_WEIGHTS(ranked[i].angle_name, ranked[i].phase) = 15
       /\ ANGLE_WEIGHTS(ranked[j].angle_name, ranked[j].phase) = 10
       /\ Abs(ranked[j].delta) > Abs(ranked[i].delta)

\* The end-to-end scenario: the user's spine_angle_dtl at impact is 30.0
\* against 18.7 and right_knee_flex at impact is 140.0 against 154.3.
ScenarioInput ==
  {Entry("dtl", "impact", "spine_angle_dtl", Num(300), Num(187)),
   Entry("dtl", "impact", "right_knee_flex", Num(1400), Num(1543))}

InScenario ==
  /\ user_angles = AnglesDict(ScenarioInput, "user")
  /\ ref_angles = AnglesDict(ScenarioInput, "ref")

IsSpineImpact(e) ==
  e.angle_name = "spine_angle_dtl" /\ e.phase = "impact" /\ e.view = "dtl"

IsKneeImpact(e) ==
  e.angle_name = "right_knee_flex" /\ e.phase = "impact" /\ e.view = "dtl"

\* C6: in the scenario the spine entry (delta +11.3) is ranked first and the
\* knee-flex entry (delta -14.3) second, and the feedback for the spine
\* entry is "Early Extension (Loss of Posture)" with severity "major".
C6_Scenario ==
  /\ (InScenario /\ RankedDone) =>
       /\ Len(ranked) = 2
       /\ IsSpineImpact(ranked[1]) /\ ranked[1].delta = 1130
       /\ IsKneeImpact(ranked[2]) /\ ranked[2].delta = -1430
  /\ FeedbackDone =>
       \A k \in DOMAIN top_differences :
         (IsSpineImpact(top_differences[k])
            /\ top_differences[k].delta = 1130)
         => /\ top_differences[k].title
                 = "Early Extension (Loss of Posture)"
            /\ top_differences[k].severity = "major"

\* C6 witness: the scenario has run through generate_feedback.
C6_Witness ==
  /\ InScenario
  /\ FeedbackDone
  /\ Len(top_differences) = 2
  /\ IsSpineImpact(top_differences[1])

\* The entries rank_differences sorts, with their weighted magnitudes.
SortedCandidates == AllDiffs(deltas, user_angles, ref_angles)

BeyondMaxDelta(c) ==
  IF ANGLE_WEIGHTS(c[3], c[2]) < 10
  THEN Abs(DeltaAt(c)) * ANGLE_WEIGHTS(c[3], c[2]) >= 45000
  ELSE Abs(DeltaAt(c)) >= 4500

\* The delta table with the magnitude of one cell grown by k, sign kept.
Grown(c, k) ==
  [deltas EXCEPT ![c[1]][c[2]][c[3]] =
     IF @ < 0 THEN @ - k ELSE @ + k]

GrowthSteps == {10, 250, 1000, 4500}

\* C8: the score is an integer in [0, 100], does not increase when the
\* magnitude of one cell grows, is 100 when every delta is 0 and is 0 when
\* every delta is at or beyond its cell's max_delta.
C8_ScoreBounds ==
  ScoreDone =>
    /\ similarity_score \in 0..100
    /\ \A c \in CellSet(deltas) : \A k \in GrowthSteps :
         compute_similarity_score(Grown(c, k)) <= similarity_score
    /\ (CellSet(deltas) # {} /\ \A c \in CellSet(deltas) : DeltaAt(c) = 0)
         => similarity_score = 100
    /\ (\A c \in CellSet(deltas) : BeyondMaxDelta(c))
         => similarity_score = 0

\* C8 witness: a score computed over two or more cells, each at or beyond
\* its max_delta, one of them with a widened max_delta.
C8_Witness ==
  /\ ScoreDone
  /\ Cardinality(CellSet(deltas)) >= 2
  /\ \A c \in CellSet(deltas) : BeyondMaxDelta(c)
  /\ \E c \in CellSet(deltas) : ANGLE_WEIGHTS(c[3], c[2]) < 10

\* max(0, 1 - |delta| / max_delta) of a cell, times 45000.
ClaimedCellScore(c) ==
  LET w == ANGLE_WEIGHTS(c[3], c[2])
      n == IF w >= 10 THEN 45000 - 10 * Abs(DeltaAt(c))
           ELSE 45000 - w * Abs(DeltaAt(c))
  IN  IF n > 0 THEN n ELSE 0

RECURSIVE ClaimedSum(_)
ClaimedSum(S) ==
  IF S = {} THEN 0
  ELSE LET c == CHOOSE x \in S : TRUE
       IN  ClaimedCellScore(c) + ClaimedSum(S \ {c})

\* C9: the score is the integer nearest to 100 times the mean over all
\* cells of max(0, 1 - |delta| / max_delta), max_delta being 45 for a
\* weight of 1.0 or more and 45 / weight below; deltas of 45, 22.5 and 0 at
\* weight 1.0 give 50, and a table with no cells gives 0.
C9_ScoreIsMean ==
  ScoreDone =>
    LET C == CellSet(deltas)
        n == Cardinality(C)
    IN  /\ n = 0 => similarity_score = 0
        /\ n > 0 =>
             2 * Abs(similarity_score * 45000 * n - 100 * ClaimedSum(C))
               <= 45000 * n
        /\ ( /\ n = 3
             /\ \A c \in C : ANGLE_WEIGHTS(c[3], c[2]) = 10
             /\ {Abs(DeltaAt(c)) : c \in C} = {4500, 2250, 0} )
           => similarity_score = 50

\* C9 witness: the score of three cells of weight 1.0 with deltas of 45,
\* 22.5 and 0 has been computed.
C9_Witness ==
  /\ ScoreDone
  /\ Cardinality(CellSet(deltas)) = 3
  /\ \A c \in CellSet(deltas) : ANGLE_WEIGHTS(c[3], c[2]) = 10
  /\ {Abs(DeltaAt(c)) : c \in CellSet(deltas)} = {4500, 2250, 0}

\* The catalog rules with the key of a difference whose directional
\* condition its delta satisfies.
Candidates(diff) ==
  {i \in DOMAIN FAULT_RULES :
     /\ FAULT_RULES[i].angle_name = diff.angle_name
     /\ FAULT_RULES[i].phase = diff.phase
     /\ FAULT_RULES[i].view = diff.view
     /\ \/ /\ FAULT_RULES[i].min_delta # <<>>
           /\ diff.delta <= FAULT_RULES[i].min_delta[1]
        \/ /\ FAULT_RULES[i].max_delta # <<>>
           /\ diff.delta >= FAULT_RULES[i].max_delta[1]}

Earliest(I) == CHOOSE i \in I : \A j \in I : i <= j

C11_DirectionalCondition ==
  rm_result # <<>> =>
    /\ rm_result[1] =
         (\/ rm_rule.min_delta # <<>> /\ rm_delta <= rm_rule.min_delta[1]
          \/ rm_rule.max_delta # <<>> /\ rm_delta >= rm_rule.max_delta[1])
    /\ (rm_rule.min_delta = <<>> /\ rm_rule.max_delta = <<>>) =>
         rm_result[1] = FALSE

\* C11 witness: a delta exactly at the max_delta threshold of a rule with
\* no min_delta has been matched.
C11_Witness ==
  /\ rm_result = <<TRUE>>
  /\ rm_rule.min_delta = <<>>
  /\ rm_rule.max_delta = <<800>>
  /\ rm_delta = 800

\* C12: for a ranked difference no catalog rule matches, generate_feedback
\* returns an entry whose severity is "moderate" when |delta| > 12 and
\* "minor" otherwise, never "major", and whose description carries "more"
\* for a positive delta and "less" for a negative one.
C12_Fallback ==
  FeedbackDone =>
    \A k \in DOMAIN ranked :
       Candidates(ranked[k]) = {} =>
         /\ Abs(ranked[k].delta) > 1200 =>
              top_differences[k].severity = "moderate"
         /\ Abs(ranked[k].delta) <= 1200 =>
              top_differences[k].severity = "minor"
         /\ top_differences[k].severity # "major"
         /\ ranked[k].delta > 0 =>
              top_differences[k].description.direction = "more"
         /\ ranked[k].delta < 0 =>
              top_differences[k].description.direction = "less"

\* C12 witness: a difference of exactly 12 degrees that no rule matches has
\* been given its fallback entry.
C12_Witness ==
  /\ FeedbackDone
  /\ \E k \in DOMAIN ranked :
       /\ Candidates(ranked[k]) = {}
       /\ ranked[k].delta = 1200
       /\ top_differences[k].severity = "minor"
       /\ top_differences[k].description.direction = "more"


\* The frames and the methods of the script's result.
ScriptReturned == ph_mock = <<>> /\ ph_script.outcome = "return"

ScriptFrame(name) == ph_script.phases[name].frame

ScriptMethod(name) == ph_script.phases["_diagnostics"][name]

ImpactFound == ScriptMethod("impact") # "no_frames_after_top"

FollowThroughFound ==
  ScriptMethod("follow_through")
    \notin {"no_frames_after_impact", "no_impact_detected"}

\* C13: whenever detect_phases returns and has found impact and
\* follow-through, address <= top < impact <= follow_through, so impact is
\* never the top frame, whichever strategy found it.
C13_PhaseOrdering ==
  (ScriptReturned /\ ImpactFound /\ FollowThroughFound) =>
    /\ ScriptFrame("address") <= ScriptFrame("top")
    /\ ScriptFrame("top") < ScriptFrame("impact")
    /\ ScriptFrame("impact") <= ScriptFrame("follow_through")

\* Snapping as stated: of the detected frames nearest to frame, the one
\* with the lowest index.
NearestLower(frame, detected_frames) ==
  CHOOSE f \in Nearest(frame, detected_frames) :
    \A g \in Nearest(frame, detected_frames) : f <= g

\* detect_swing_phases has returned the phases of a script result.
Snapping == ph_script.outcome = "return" /\ ph_phases.outcome = "return"

\* C14: detect_swing_phases leaves a phase frame that is a detected frame
\* unchanged and replaces any other by the detected frame at the smallest
\* absolute distance, the lower index winning a tie.
C14_SnapToNearestLower ==
  Snapping =>
    \A name \in PHASE_NAMES :
      ph_phases.phases[name].frame =
        NearestLower(ph_script.phases[name].frame,
                     DetectedFrames(ph_landmarks))

\* Address never follows the top and follow-through follows impact.
OrderingOutsideTopImpact ==
  (ScriptReturned /\ ImpactFound /\ FollowThroughFound) =>
    /\ ScriptFrame("address") <= ScriptFrame("top")
    /\ ScriptFrame("impact") < ScriptFrame("follow_through")

\* C14 as amended: a phase frame that is a detected frame stays; any other
\* becomes a detected frame at the smallest absolute distance, either one
\* of two equally near frames; so with any frame detected, every returned
\* frame is a detected frame.
C14_SnapToNearest ==
  Snapping =>
    \A name \in PHASE_NAMES :
      LET frame == ph_script.phases[name].frame
          snapped == ph_phases.phases[name].frame
          detected_frames == DetectedFrames(ph_landmarks)
      IN  /\ frame \in detected_frames => snapped = frame
          /\ detected_frames = {} => snapped = frame
          /\ detected_frames # {} =>
                /\ snapped \in detected_frames
                /\ \A d \in detected_frames :
                     Abs(snapped - frame) <= Abs(d - frame)

\* A frame between two equally near detected frames went to the higher.
C14_Witness ==
  /\ Snapping
  /\ \E name \in PHASE_NAMES :
       LET frame == ph_script.phases[name].frame
           snapped == ph_phases.phases[name].frame
       IN  /\ frame \notin DetectedFrames(ph_landmarks)
           /\ snapped > frame
           /\ 2 * frame - snapped \in DetectedFrames(ph_landmarks)

\* C15: when impact or follow-through cannot be found, detection does not
\* abort: all four phases are returned and the phase that was not found
\* has frame 0, in the result of detect_phases and in the result of
\* detect_swing_phases after snapping.
C15_SentinelZero ==
  (ScriptReturned /\ (~ImpactFound \/ ~FollowThroughFound)) =>
    /\ PHASE_NAMES \subseteq DOMAIN ph_script.phases
    /\ ph_phases.outcome = "return"
    /\ DOMAIN ph_phases.phases = PHASE_NAMES
    /\ ~ImpactFound =>
         /\ ScriptFrame("impact") = 0
         /\ ph_phases.phases["impact"].frame = 0
    /\ ~FollowThroughFound =>
         /\ ScriptFrame("follow_through") = 0
         /\ ph_phases.phases["follow_through"].frame = 0

\* The part of C15 about detect_phases alone.
SentinelZeroInScript ==
  (ScriptReturned /\ (~ImpactFound \/ ~FollowThroughFound)) =>
    /\ PHASE_NAMES \subseteq DOMAIN ph_script.phases
    /\ ph_phases.outcome = "return"
    /\ DOMAIN ph_phases.phases = PHASE_NAMES
    /\ ~ImpactFound => ScriptFrame("impact") = 0
    /\ ~FollowThroughFound => ScriptFrame("follow_through") = 0

\* Both steps have run and calculate_angles has returned.
AnglesReturned == ph_pc = "done" /\ ph_angles.outcome = "return"

\* C16: when a phase was not found, the result of detect_swing_phases
\* followed by calculate_angles holds no angle entry for that phase, rather
\* than angles computed at some other frame.
C16_NoAnglesForPhaseNotFound ==
  (ScriptReturned /\ AnglesReturned) =>
    /\ ~ImpactFound => "impact" \notin DOMAIN ph_angles.results
    /\ ~FollowThroughFound =>
         "follow_through" \notin DOMAIN ph_angles.results

\* The hands are at one height in every frame that has a pose, and some
\* frame has one.
FlatSignal ==
  LET frames == ph_landmarks.frames
      posed == {k \in DOMAIN frames : frames[k].detected}
  IN  /\ posed # {}
      /\ \A j \in posed, k \in posed :
           frames[j].landmarks["right_wrist"].y
             = frames[k].landmarks["right_wrist"].y

\* C17: not finding a top is fatal: on a flat hand signal, and whenever no
\* candidate passes the prominence, V-shape and preceding-address checks
\* in any strategy, phase detection fails with an error instead of
\* returning a top frame.
C17_TopNotFoundIsFatal ==
  (ph_mock = <<>> /\ ph_script.outcome # "none") =>
    /\ FlatSignal => ph_phases.outcome = "PhaseDetectionError"
    /\ ph_script.outcome = "return" => ScriptMethod("top") # "global_min"

\* The hand is visible in no frame: the signal is NaN throughout.
AllNaN ==
  \A k \in DOMAIN ph_landmarks.frames :
    LET f == ph_landmarks.frames[k]
    IN  \/ ~f.detected
        \/ \A name \in {"right_wrist", "left_wrist"} :
             f.landmarks[name].visibility < min_visibility

\* C18: detect_swing_phases either returns a mapping with exactly the keys
\* address, top, impact and follow_through (no _diagnostics) or raises
\* PhaseDetectionError; an all-NaN signal, SystemExit or any other
\* exception from the script, and a result that lacks a phase all come out
\* as PhaseDetectionError.
C18_ReturnOrPhaseDetectionError ==
  ph_script.outcome # "none" =>
    /\ ph_phases.outcome \in {"return", "PhaseDetectionError"}
    /\ ph_phases.outcome = "return" =>
         DOMAIN ph_phases.phases = PHASE_NAMES
    /\ ph_script.outcome \in {"SystemExit", "Exception"} =>
         ph_phases.outcome = "PhaseDetectionError"
    /\ (ph_script.outcome = "return"
          /\ ~(PHASE_NAMES \subseteq DOMAIN ph_script.phases)) =>
         ph_phases.outcome = "PhaseDetectionError"
    /\ (ph_mock = <<>> /\ AllNaN) =>
         ph_phases.outcome = "PhaseDetectionError"

\* The script itself has exited on an all-NaN signal at a usable frame
\* rate, and the caller got PhaseDetectionError.
C18_Witness ==
  /\ ph_mock = <<>>
  /\ AllNaN
  /\ ph_landmarks.summary.fps > 0
  /\ ph_script.outcome = "SystemExit"
  /\ ph_phases.outcome = "PhaseDetectionError"

\* The phases given to calculate_angles whose frame is in the video and
\* has a detected pose.
UsablePhases ==
  {name \in DOMAIN ph_phases.phases :
     \E k \in DOMAIN ph_landmarks.frames :
       /\ ph_landmarks.frames[k].frame = ph_phases.phases[name].frame
       /\ ph_landmarks.frames[k].detected}

\* A usable phase whose frame holds no landmarks: the computation raises.
ComputationRaises ==
  \E name \in UsablePhases :
    ph_landmarks.frames[ph_phases.phases[name].frame + 1].landmarks = <<>>

\* C19: calculate_angles makes no entry for a phase whose frame is absent
\* from the video or not detected and still computes the other phases;
\* when no phase yields an entry, or the computation raises, it raises
\* AngleCalculationError.
C19_OmitOrAngleCalculationError ==
  ph_angles.outcome # "none" =>
    /\ ph_angles.outcome \in {"return", "AngleCalculationError"}
    /\ ph_angles.outcome = "AngleCalculationError"
         <=> (UsablePhases = {} \/ ComputationRaises)
    /\ ph_angles.outcome = "return" =>
         /\ DOMAIN ph_angles.results = UsablePhases
         /\ \A name \in UsablePhases :
              /\ ph_angles.results[name].frame
                   = ph_phases.phases[name].frame
              /\ DOMAIN ph_angles.results[name].angles # {}

\* Some phases were computed and some were left out.
C19_Witness ==
  /\ ph_angles.outcome = "return"
  /\ DOMAIN ph_angles.results # {}
  /\ DOMAIN ph_angles.results # DOMAIN ph_phases.phases

\* C20: for every interleaving of two concurrent calls of
\* detect_swing_phases or calculate_angles, each returns what it would
\* return alone, the output captured for one holds nothing the other
\* printed, and once both have finished sys.stdout is what it was before
\* either started.
C20_ConcurrentCallsIsolated ==
  /\ \A t \in DOMAIN so_pc :
       so_pc[t] = "done" =>
         /\ so_result[t] = ResultAlone(t)
         /\ \A k \in DOMAIN so_captured[t] : so_captured[t][k] = t
  /\ (so_pc # <<>> /\ \A t \in DOMAIN so_pc : so_pc[t] = "done") =>
       so_stdout = 0

\* The part of C20 that holds: the returned values.
ConcurrentResultsAsAlone ==
  \A t \in DOMAIN so_pc :
    so_pc[t] \in {"exited", "done"} => so_result[t] = ResultAlone(t)

\* The signals of C21: a synthetic swing whose raw signal has one minimum,
\* after a still period at the address level and before a return to the
\* address level.
SyntheticInputs ==
  {Landmarks(SyntheticSwing(s[1], s[2], s[3], s[4]), WristVisibility,
             "all", fps) :
     s \in SyntheticShapes, fps \in {1000, 3000}}

\* The heights of a signal with a visible hand in every frame.
InjectedSignal == Array([k \in DOMAIN SignalRaw |-> SignalRaw[k][1]])

\* The frame of the injected minimum: the only frame at which the raw
\* signal is smallest.
InjectedMinimum == ArgMin(InjectedSignal)

OneClearMinimum ==
  /\ sg_landmarks \in SyntheticInputs
  /\ \A k \in DOMAIN InjectedSignal :
       k # InjectedMinimum + 1 =>
         InjectedSignal[k] > InjectedSignal[InjectedMinimum + 1]

TopFound == sg_pc \in {"find_address", "find_impact", "done"}

\* C21: on a synthetic signal with one clear minimum, preceded by a still
\* period with the hands low and followed by a return to the address
\* level, the top frame that find_top_of_backswing returns is the frame of
\* the injected minimum, and detecting again on the same signal returns
\* the same frame.
C21_TopIsInjectedMinimum ==
  (TopFound /\ OneClearMinimum) =>
    /\ sg_top.frame = InjectedMinimum
    /\ sg_top = find_top_of_backswing(sg_y_smooth, sg_velocity.velocity,
                                      MaxOf(sg_y_smooth),
                                      sg_landmarks.summary.fps,
                                      SignalVisibility)

\* The part of C21 that holds: the returned top is within two frames of the
\* injected minimum (half the smoothing window).
TopNearInjectedMinimum ==
  (TopFound /\ OneClearMinimum) =>
    /\ sg_top.frame - InjectedMinimum \in -2..2

\* get_shares_for_upload lists the token for some upload.
Listed(rows, share_token) ==
  \E upload_id \in Uploads :
    \E k \in DOMAIN get_shares_for_upload(rows, upload_id) :
      get_shares_for_upload(rows, upload_id)[k].share_token = share_token

\* The step is a call of share_store.revoke_share.
RevokeShareStep == sh_last'.op = "revoke_share"

\* C22: once revoke_share has returned True for a token, get_share returns
\* None for it and get_shares_for_upload does not list it, in every later
\* state, whatever is created, revoked or looked up afterwards; the call
\* leaves what get_share returns for every other token as it was; and
\* revoke_share on a token without a row returns False and leaves the
\* table as it was.
C22_RevokedStaysRevoked ==
  [][/\ \A t \in sh_revoked' :
          /\ get_share(sh_rows', sh_now', t) = <<>>
          /\ ~Listed(sh_rows', t)
     /\ (RevokeShareStep /\ sh_last'.result) =>
          /\ RowOf(sh_rows, sh_last'.share_token) # <<>>
          /\ sh_last'.share_token \in sh_revoked'
          /\ \A o \in DOMAIN sh_rows :
               o # sh_last'.share_token =>
                 get_share(sh_rows', sh_now', o) = get_share(sh_rows, sh_now, o)
     /\ (RevokeShareStep /\ ~sh_last'.result) =>
          /\ RowOf(sh_rows, sh_last'.share_token) = <<>>
          /\ sh_rows' = sh_rows
          /\ sh_revoked' = sh_revoked]_vars

\* A token has been revoked, a token of the same upload has been created
\* after it by the call that has just returned, and get_share returns that
\* one.
C22_Witness ==
  /\ sh_last.op = "create_share"
  /\ \E t \in sh_revoked :
       /\ t < sh_last.result
       /\ RowOf(sh_rows, t)[1].upload_id
            = RowOf(sh_rows, sh_last.result)[1].upload_id
       /\ get_share(sh_rows, sh_now, t) = <<>>
       /\ get_share(sh_rows, sh_now, sh_last.result) # <<>>

\* The three checks of C23 on a candidate frame m, lines 285-304 and
\* 329-348: m lies more than the prominence threshold above the address
\* level, the hands return to 60% of the address level within 1.5 s, and a
\* still period with the hands low precedes m.
PassesProminence(m) ==
  MaxOf(sg_y_smooth) - sg_y_smooth[m + 1] > top_prominence_threshold

PassesVShape(m) ==
  LET v_end == Min(m + FramesIn(sg_landmarks.summary.fps, 1500),
                   Len(sg_y_smooth))
      post_y == Slice(sg_y_smooth, m, v_end)
  IN  /\ Len(post_y) > 0
      /\ ~ReturnRatioBelow(MaxOf(post_y), MaxOf(sg_y_smooth))

PassesAddress(m) ==
  has_preceding_address(m, sg_velocity.velocity, sg_y_smooth,
                        MaxOf(sg_y_smooth), sg_landmarks.summary.fps)

PassesAll(m) == PassesProminence(m) /\ PassesVShape(m) /\ PassesAddress(m)

\* The velocity peaks of the signal, earliest first.
SignalDirVel == DirVelSmooth(sg_y_smooth, SignalVisibility)

SignalPeaks ==
  IF MaxOf(SignalDirVel) > still_threshold * 5 * 25
  THEN VelPeaks(SignalDirVel, MaxOf(SignalDirVel), sg_landmarks.summary.fps,
                2, <<>>)
  ELSE <<>>

\* The minimum that precedes a velocity peak: the lowest smoothed y of the
\* 3 s before the peak.
PrecedingMinimum(peak_frame) ==
  LET search_start ==
        Max(0, peak_frame - FramesIn(sg_landmarks.summary.fps, 3000))
  IN  ArgMin(Slice(sg_y_smooth, search_start, peak_frame + 1)) + search_start

\* The frames each strategy of C23 yields, <<>> when it yields none.
ByVelocityPeak ==
  LET passing == SelectSeq(SignalPeaks,
                           LAMBDA p : PassesAll(PrecedingMinimum(p)))
  IN  IF passing = <<>> THEN <<>> ELSE <<PrecedingMinimum(passing[1])>>

ByCheckedMinimum ==
  LET passing == SelectSeq(LocalMinima(sg_y_smooth), PassesAll)
  IN  IF passing = <<>> THEN <<>> ELSE <<passing[1]>>

ByProminentMinimum ==
  LET passing == SelectSeq(LocalMinima(sg_y_smooth), PassesProminence)
  IN  IF passing = <<>> THEN <<>> ELSE <<passing[1]>>

ByGlobalMinimum == <<ArgMin(sg_y_smooth)>>

FirstYield ==
  IF ByVelocityPeak # <<>> THEN ByVelocityPeak[1]
  ELSE IF ByCheckedMinimum # <<>> THEN ByCheckedMinimum[1]
  ELSE IF ByProminentMinimum # <<>> THEN ByProminentMinimum[1]
  ELSE ByGlobalMinimum[1]

\* C23: find_top_of_backswing returns the frame of the first strategy that
\* yields one, in the order: velocity peaks earliest first (the first
\* whose preceding minimum passes prominence, V-shape and preceding
\* address, whatever the size of later peaks), earliest local minimum
\* passing the same three checks, earliest local minimum passing
\* prominence, global minimum.
C23_FirstStrategyThatYields ==
  TopFound => sg_top.frame = FirstYield

\* The check strategy 2 makes first, lines 336-338: the rolling velocity
\* exceeds three times the still threshold within
\* downswing_validation_frames frames from m on.
PassesMotion(m) ==
  LET post_vel ==
        Slice(sg_velocity.velocity, m,
              Min(m + downswing_validation_frames, Len(sg_y_smooth)))
  IN  Len(post_vel) > 0 /\ MaxOf(post_vel) > still_threshold * 3

ByValidatedMinimum ==
  LET passing == SelectSeq(LocalMinima(sg_y_smooth),
                           LAMBDA m : PassesMotion(m) /\ PassesAll(m))
  IN  IF passing = <<>> THEN <<>> ELSE <<passing[1]>>

FirstYieldWithMotion ==
  IF ByVelocityPeak # <<>> THEN ByVelocityPeak[1]
  ELSE IF ByValidatedMinimum # <<>> THEN ByValidatedMinimum[1]
  ELSE IF ByProminentMinimum # <<>> THEN ByProminentMinimum[1]
  ELSE ByGlobalMinimum[1]

\* C23 as the code has it: the second strategy takes the earliest local
\* minimum that passes prominence, is followed by motion, and passes the
\* V-shape and preceding-address checks.
C23_FirstStrategyWithMotion ==
  TopFound => sg_top.frame = FirstYieldWithMotion

\* The earliest velocity peak decided the top although a later peak is
\* larger.
C23_Witness ==
  /\ TopFound
  /\ sg_top.method = "velocity_peak_backtrack"
  /\ Len(SignalPeaks) >= 2
  /\ sg_top.frame = PrecedingMinimum(SignalPeaks[1])
  /\ \E k \in 2..Len(SignalPeaks) :
       /\ SignalDirVel[SignalPeaks[k] + 1] > SignalDirVel[SignalPeaks[1] + 1]
       /\ PassesAll(PrecedingMinimum(SignalPeaks[k]))
       /\ PrecedingMinimum(SignalPeaks[k]) # sg_top.frame

Strategy2Decides == TopFound /\ sg_top.method = "prominence_fallback"
Strategy3Decides == TopFound /\ sg_top.method = "prominence_only"
Strategy4Decides == TopFound /\ sg_top.method = "global_min"

AddressFound == sg_pc \in {"find_impact", "done"}

\* The maximal still runs before the top: <<first, last>> with every frame
\* from first to last below the still threshold, the frame before first and
\* the frame after last (if before the top) not below it, and at least
\* min_still_duration frames long.
StillRunsBeforeTop ==
  LET v == sg_velocity.velocity
      top == sg_top.frame
  IN  {r \in (0..(top - 1)) \X (0..(top - 1)) :
         /\ r[2] - r[1] + 1 >= min_still_duration
         /\ \A i \in r[1]..r[2] : v[i + 1] < still_threshold
         /\ r[1] > 0 => v[r[1]] >= still_threshold
         /\ r[2] < top - 1 => v[r[2] + 2] >= still_threshold}

\* Twice the sum of y over a run against (top_y + max_y) times its length:
\* the average y of the run lies in the half of [top_y, max_y] with the
\* hands low.
HandsLow(r) ==
  2 * SumRange(sg_y_smooth, r[1] + 1, r[2] + 1)
    > (sg_y_smooth[sg_top.frame + 1]
         + MaxOf(Slice(sg_y_smooth, 0, sg_top.frame))) * (r[2] - r[1] + 1)

\* The first frame of a run with the largest y of the run.
LowestHandsIn(r) ==
  CHOOSE f \in r[1]..r[2] :
    /\ \A g \in r[1]..r[2] : sg_y_smooth[g + 1] <= sg_y_smooth[f + 1]
    /\ \A g \in r[1]..(f - 1) : sg_y_smooth[g + 1] < sg_y_smooth[f + 1]

ExpectedAddress ==
  LET runs == StillRunsBeforeTop
      low == {r \in runs : HandsLow(r)}
      last == CHOOSE r \in low : \A q \in low : q[1] <= r[1]
      best == CHOOSE r \in runs :
                /\ \A q \in runs : ~RunMeanGreater(sg_y_smooth, q, r)
                /\ \A q \in runs :
                     q[1] < r[1] => RunMeanGreater(sg_y_smooth, r, q)
  IN  IF runs = {} THEN 0
      ELSE IF low # {} THEN LowestHandsIn(last)
      ELSE LowestHandsIn(best)

\* C24: find_address returns the frame of the largest y in the last still
\* run before the top whose average y lies in the hands-low half of
\* [top y, max y]; when no run lies there, in the still run with the highest
\* average y; and frame 0 when no still run precedes the top.  The address
\* is 0 or a frame below the top.
C24_AddressBeforeTop ==
  AddressFound =>
    /\ sg_address.frame = ExpectedAddress
    /\ sg_address.frame = 0 \/ sg_address.frame < sg_top.frame

\* Two still runs with the hands low precede the top, and the address is
\* a frame of the later one.
C24_Witness ==
  /\ AddressFound
  /\ sg_address.method = "hands_low_run"
  /\ Cardinality({r \in StillRunsBeforeTop : HandsLow(r)}) >= 2
  /\ \E r \in StillRunsBeforeTop :
       HandsLow(r) /\ r[2] < sg_address.frame
  /\ sg_address.frame < sg_top.frame

AddressByFallbackRun == AddressFound /\ sg_address.method = "fallback_run"
AddressWithoutStillRun ==
  AddressFound /\ sg_address.method = "no_still_period_found"

ImpactSearched == sg_pc = "done"

\* The directional velocity find_impact looks at, lines 464-480, and its
\* peak.
ImpactWindow == FramesIn(sg_landmarks.summary.fps, 1000)

ImpactRegion ==
  Slice(sg_y_smooth, sg_top.frame,
        Min(sg_top.frame + ImpactWindow, Len(sg_y_smooth)))

ImpactDirVel ==
  IF Len(ImpactRegion) - 1 > 3 THEN ZeroWindowSum3(Diff(ImpactRegion))
  ELSE Diff(ImpactRegion)

ImpactPeak == ArgMax(ImpactDirVel)

\* The peak is fast enough for the primary strategy, line 485.
ImpactByVelocity ==
  /\ Len(ImpactRegion) > 1
  /\ ImpactDirVel[ImpactPeak + 1]
       > (IF Len(ImpactRegion) - 1 > 3 THEN 18 ELSE 6)

\* The positions after the peak at which the velocity is at most 15% of the
\* peak.
SettledAtMost ==
  {i \in (ImpactPeak + 1)..(Len(ImpactDirVel) - 1) :
     100 * ImpactDirVel[i + 1] <= 15 * ImpactDirVel[ImpactPeak + 1]}

\* C25 as stated: an impact frame lies within int(fps) frames from the top;
\* when the peak velocity is fast enough, impact is the first frame after
\* the peak at which the velocity is at most 15% of the peak, exactly 15%
\* included, and the steepest deceleration is used only when there is no
\* such frame.
C25_ImpactAtFirstAtMostFifteen ==
  ImpactSearched =>
    /\ sg_impact.frame # -1 =>
         /\ sg_impact.frame >= sg_top.frame
         /\ sg_impact.frame < sg_top.frame + ImpactWindow
    /\ (ImpactByVelocity /\ SettledAtMost # {}) =>
         /\ sg_impact.method = "velocity_settle"
         /\ sg_impact.frame - sg_top.frame \in SettledAtMost
         /\ \A i \in SettledAtMost : sg_impact.frame - sg_top.frame <= i
    /\ sg_impact.method = "max_deceleration" =>
         ImpactByVelocity /\ SettledAtMost = {}

\* The positions after the peak at which the velocity is below 15% of the
\* peak.
SettledBelow ==
  {i \in (ImpactPeak + 1)..(Len(ImpactDirVel) - 1) :
     100 * ImpactDirVel[i + 1] < 15 * ImpactDirVel[ImpactPeak + 1]}

\* C25, amended: an impact frame lies within int(fps) frames from the top;
\* when the peak velocity is fast enough, impact is the first frame after
\* the peak at which the velocity is below 15% of the peak, a velocity of
\* exactly 15% of the peak not being settled, and the steepest deceleration
\* is used only when no frame after the peak is below 15%.
C25_ImpactAtFirstBelowFifteen ==
  ImpactSearched =>
    /\ sg_impact.frame # -1 =>
         /\ sg_impact.frame >= sg_top.frame
         /\ sg_impact.frame < sg_top.frame + ImpactWindow
    /\ (ImpactByVelocity /\ SettledBelow # {}) =>
         /\ sg_impact.method = "velocity_settle"
         /\ sg_impact.frame - sg_top.frame \in SettledBelow
         /\ \A i \in SettledBelow : sg_impact.frame - sg_top.frame <= i
    /\ sg_impact.method = "max_deceleration" =>
         ImpactByVelocity /\ SettledBelow = {}

\* Impact by settling, one frame after a frame at exactly 15% of the peak.
C25_Witness ==
  /\ ImpactSearched
  /\ ImpactByVelocity
  /\ sg_impact.method = "velocity_settle"
  /\ sg_impact.frame - sg_top.frame \in SettledBelow
  /\ \E i \in SettledAtMost \ SettledBelow : i < sg_impact.frame - sg_top.frame

\* Impact by the steepest deceleration, no frame having settled.
ImpactBySteepestDeceleration ==
  ImpactSearched /\ sg_impact.method = "max_deceleration"

\* Impact by a later strategy, the peak being too slow.
ImpactByLaterStrategy ==
  /\ ImpactSearched
  /\ sg_impact.frame # -1
  /\ ~ImpactByVelocity

VelocityComputed == sg_pc \notin {"smooth_signal", "compute_velocity"}

SignalFrames == Len(sg_landmarks.frames)

\* C26: for a signal of N >= 1 frames the smoothed signal has N samples and
\* the rolling velocity has N samples, the first of which is 0, also when N
\* is below the smoothing or the velocity window.
C26_SignalLengthsPreserved ==
  VelocityComputed =>
    /\ Len(sg_y_smooth) = SignalFrames
    /\ sg_velocity.outcome = "return"
    /\ Len(sg_velocity.velocity) = SignalFrames
    /\ sg_velocity.velocity[1] = 0

\* What the code keeps: N smoothed samples; no velocity for one frame; a
\* velocity of N samples from velocity_window + 1 frames on and of
\* velocity_window + 1 samples below that, the first being 0.
LengthsAsComputed ==
  VelocityComputed =>
    /\ Len(sg_y_smooth) = SignalFrames
    /\ sg_velocity.outcome = "return" <=> SignalFrames >= 2
    /\ sg_velocity.outcome = "return" =>
         /\ Len(sg_velocity.velocity) = Max(SignalFrames, velocity_window + 1)
         /\ sg_velocity.velocity[1] = 0

ShortVelocityReached ==
  /\ VelocityComputed
  /\ sg_velocity.outcome = "return"
  /\ SignalFrames < Len(sg_velocity.velocity)

NoVelocityReached ==
  VelocityComputed /\ sg_velocity.outcome = "Exception"

SimsDone == pc = "done"

\* The cells of the delta table whose angle name is not excluded from the
\* rankings.
SimilarityCells ==
  {c \in CellSet(deltas) : c[3] \notin EXCLUDE_ANGLES_FROM_RANKING}

InSims(c) ==
  \E i \in DOMAIN ranked_sims :
    /\ ranked_sims[i].view = c[1]
    /\ ranked_sims[i].phase = c[2]
    /\ ranked_sims[i].angle_name = c[3]

\* C27: rank_similarities returns at most 3 entries in non-decreasing order
\* of raw |delta|, none with an excluded angle name, at most 2 from the same
\* view when the delta table spans 2 views, with ranks 1..k in order; there
\* is no floor: a cell of any delta, 0 included, is left out only when 3
\* entries are returned or its view has reached the cap.
C27_SimilaritiesMirrorDifferences ==
  SimsDone =>
    /\ Len(ranked_sims) <= 3
    /\ \A i \in DOMAIN ranked_sims :
         /\ ranked_sims[i].rank = i
         /\ ranked_sims[i].angle_name \notin
              {"shoulder_line_angle", "hip_line_angle", "x_factor",
               "lead_arm_torso", "trail_arm_torso"}
         /\ ranked_sims[i].delta
              = deltas[ranked_sims[i].view][ranked_sims[i].phase]
                      [ranked_sims[i].angle_name]
    /\ \A i \in DOMAIN ranked_sims : \A j \in DOMAIN ranked_sims :
         i < j => Abs(ranked_sims[i].delta) <= Abs(ranked_sims[j].delta)
    /\ Cardinality(DOMAIN deltas) = 2
         => \A v \in ViewSet : FromView(ranked_sims, v) <= 2
    /\ \A c \in SimilarityCells :
         \/ InSims(c)
         \/ Len(ranked_sims) = 3
         \/ FromView(ranked_sims, c[1])
              >= (IF Cardinality(DOMAIN deltas) = 2 THEN 2 ELSE 3)

\* C27 witness: a delta of 0 ranked first, ahead of a delta below the floor
\* of rank_differences and of a larger one.
C27_Witness ==
  /\ SimsDone
  /\ Len(ranked_sims) = 3
  /\ ranked_sims[1].delta = 0
  /\ Abs(ranked_sims[2].delta) > 0
  /\ Abs(ranked_sims[2].delta) < MIN_DELTA_DEGREES
  /\ Abs(ranked_sims[3].delta) >= MIN_DELTA_DEGREES

\* A cell left out of the similarities because its view has reached the cap
\* of 2.
SimilarityCapReached ==
  /\ SimsDone
  /\ Len(ranked_sims) < 3
  /\ \E c \in SimilarityCells : ~InSims(c)

\* The catalog rules with the key of a difference.
KeyRules(diff) ==
  {i \in DOMAIN FAULT_RULES :
     /\ FAULT_RULES[i].angle_name = diff.angle_name
     /\ FAULT_RULES[i].phase = diff.phase
     /\ FAULT_RULES[i].view = diff.view}

\* The condition of rule i is satisfied by a delta.
Satisfied(i, delta) ==
  \/ /\ FAULT_RULES[i].min_delta # <<>>
     /\ delta <= FAULT_RULES[i].min_delta[1]
  \/ /\ FAULT_RULES[i].max_delta # <<>>
     /\ delta >= FAULT_RULES[i].max_delta[1]

\* C28: the rules of a key set exactly one bound each, a negative min_delta
\* or a positive max_delta, no two of them in the same direction; so for
\* every delta at most one rule of the key has a satisfied condition, and
\* the feedback is that of the satisfied rule wherever it stands in the
\* catalog, the generic entry when there is none.
C28_AtMostOneRuleMatches ==
  FeedbackDone =>
    \A k \in DOMAIN ranked :
      LET K == KeyRules(ranked[k])
      IN  /\ \A i \in K :
                /\ (FAULT_RULES[i].min_delta = <<>>)
                     # (FAULT_RULES[i].max_delta = <<>>)
                /\ FAULT_RULES[i].min_delta # <<>>
                     => FAULT_RULES[i].min_delta[1] < 0
                /\ FAULT_RULES[i].max_delta # <<>>
                     => FAULT_RULES[i].max_delta[1] > 0
          /\ \A i \in K : \A j \in K :
                i # j => (FAULT_RULES[i].min_delta = <<>>)
                           # (FAULT_RULES[j].min_delta = <<>>)
          /\ \A d \in RuleDeltas :
                Cardinality({i \in K : Satisfied(i, d)}) <= 1
          /\ \A i \in K :
                Satisfied(i, ranked[k].delta)
                  => top_differences[k]
                       = RuleFeedback(ranked[k], FAULT_RULES[i])
          /\ (\A i \in K : ~Satisfied(i, ranked[k].delta))
                => top_differences[k] = FallbackFeedback(ranked[k])

\* C28 witness: feedback from the later of the two rules of a key, the
\* earlier one not being satisfied.
C28_Witness ==
  /\ FeedbackDone
  /\ Len(ranked) = 1
  /\ \E i \in KeyRules(ranked[1]) : \E j \in KeyRules(ranked[1]) :
       /\ i < j
       /\ ~Satisfied(i, ranked[1].delta)
       /\ Satisfied(j, ranked[1].delta)
       /\ top_differences[1].title = FAULT_RULES[j].title

\* Feedback for a key of the catalog that rank_differences never emits.
ExcludedKeyFeedback ==
  /\ FeedbackDone
  /\ \E k \in DOMAIN ranked :
       /\ ranked[k].angle_name \in EXCLUDE_ANGLES_FROM_RANKING
       /\ \E i \in KeyRules(ranked[k]) : Satisfied(i, ranked[k].delta)

\* The views with a cell rank_differences could take, and those with a cell
\* rank_similarities could take.
ViewsWithDifferences ==
  {c[1] : c \in {x \in CellSet(deltas) :
                   /\ x[3] \notin EXCLUDE_ANGLES_FROM_RANKING
                   /\ Abs(DeltaAt(x)) >= MIN_DELTA_DEGREES}}

ViewsWithSimilarities ==
  {c[1] : c \in {x \in CellSet(deltas) :
                   x[3] \notin EXCLUDE_ANGLES_FROM_RANKING}}

\* C29: the cap per view follows the number of view keys of the delta
\* table: with two view keys and eligible entries in one view only, at most
\* 2 entries are returned however many that view has, and 3 entries come
\* from one view only when the table has a single view key.
C29_CapFollowsViewKeys ==
  /\ RankedDone =>
       /\ (Cardinality(DOMAIN deltas) = 2
             /\ Cardinality(ViewsWithDifferences) <= 1)
            => Len(ranked) <= 2
       /\ \A v \in ViewSet :
            FromView(ranked, v) = 3 => Cardinality(DOMAIN deltas) = 1
  /\ SimsDone =>
       /\ (Cardinality(DOMAIN deltas) = 2
             /\ Cardinality(ViewsWithSimilarities) <= 1)
            => Len(ranked_sims) <= 2
       /\ \A v \in ViewSet :
            FromView(ranked_sims, v) = 3 => Cardinality(DOMAIN deltas) = 1

\* C29 witness: two view keys, three cells of one view that both rankings
\* could take and none of the other view, and 2 similarities returned.
C29_Witness ==
  /\ SimsDone
  /\ DOMAIN deltas = {"dtl", "fo"}
  /\ ViewsWithDifferences = {"dtl"}
  /\ ViewsWithSimilarities = {"dtl"}
  /\ Cardinality({c \in CellSet(deltas) :
                    /\ c[1] = "dtl"
                    /\ c[3] \notin EXCLUDE_ANGLES_FROM_RANKING
                    /\ Abs(DeltaAt(c)) >= MIN_DELTA_DEGREES}) = 3
  /\ Len(ranked) = 2
  /\ Len(ranked_sims) = 2

\* Three entries from the one view of a table with a single view key.
ThreeFromSingleView ==
  /\ SimsDone
  /\ Cardinality(DOMAIN deltas) = 1
  /\ Len(ranked) = 3
  /\ Len(ranked_sims) = 3

\* POST /share has just answered with a token.
ShareTokenReturned ==
  /\ sh_last.op = "create_share_token"
  /\ sh_last.response.status = 200

\* C30: a token that POST /share returns is active when it is returned:
\* get_share returns its share, after any creations, revocations and
\* passage of time, also when an earlier token of the same upload and view
\* has passed its expiry.
C30_ReturnedTokenIsActive ==
  ShareTokenReturned =>
    get_share(sh_rows, sh_now, sh_last.response.share_token) # <<>>

\* The part of C30 that holds: the returned token has a row and is not
\* revoked.
ReturnedTokenIsPublic ==
  ShareTokenReturned =>
    /\ RowOf(sh_rows, sh_last.response.share_token) # <<>>
    /\ RowOf(sh_rows, sh_last.response.share_token)[1].is_public = 1

====
